---- MODULE Spec2Model ----
(***************************************************************************)
(* Verification model of the Virby VM runner (pkgs/vm-runner).             *)
(*                                                                         *)
(*   SpecCB : circuit_breaker.py, CircuitBreaker used by concurrent        *)
(*            coroutines on one event loop.                                *)
(*   Spec   : vm_process.py, VMProcess driven by concurrent coroutines     *)
(*            (safe_resume_or_start / start, stop, pause, monitor tasks).  *)
(*   SpecOrphan : cleanup_orphaned_vfkit_processes and cli.main().         *)
(*   SpecApi  : api.py, REST calls of pause() / resume() and the breaker.  *)
(*   SpecSock : runner.py, acquisition of the activation socket.           *)
(*   SpecConn : runner.py, connection handlers of the activation server.   *)
(*   SpecRun  : cli.py, config.py and VirbyVMRunner.run: one supervisor    *)
(*              process from its start to its exit code.                   *)
(*   SpecMac  : ip_discovery.py, MAC normalisation and lease matching.     *)
(*   SpecSig  : signal_manager.py, SignalManager.                          *)
(*   SpecPause : vm_process.py, VMProcess driven by start() and            *)
(*            safe_pause_or_stop().                                        *)
(*   SpecMonitor, SpecConnFair, SpecRunFair : Spec, SpecConn and SpecRun   *)
(*            (the latter with two configurations) under the fairness of   *)
(*            the event loop.                                              *)
(*                                                                         *)
(* Scheduling is asyncio's: one step of the model is the code a coroutine  *)
(* runs between two suspension points (awaits that really yield).          *)
(***************************************************************************)
EXTENDS Integers, Sequences, FiniteSets, TLC

VARIABLES
    \* ---- CircuitBreaker (circuit_breaker.py) ----
    cbState,            \* self.state
    failure_count,      \* self.failure_count
    last_failure_time,  \* self.last_failure_time (NoTime = None)
    now,                \* time.time(), in seconds
    cbPc,               \* per caller: "idle" | "in_func" (suspended in await func())
    cbConsec,           \* history: failed completions since the last success / reset
    cbTrial,            \* history: caller whose call moved OPEN -> HALF_OPEN, while it is
                        \*          in flight and no reset() has intervened
    cbLast,             \* history: the last event of the breaker
    \* ---- VMProcess (vm_process.py) ----
    vm,                 \* the VMProcess object: vm_process, ip_address, shutdown_requested,
                        \*   pid_file (content of vfkit.pid, NoProc = no file), client
                        \*   (api_client._client is not None), close_pending (a task
                        \*   created for api_client.close() has not run yet)
    loc,                \* per calling coroutine: its position and local variables
    child,              \* per vfkit child (pid): "none" | "alive" | "exited"
    vmState,            \* per vfkit child: hypervisor state "running" | "paused" (of a live
                        \*   child; "running" otherwise)
    lease,              \* DHCP lease file entry for the MAC: NoProc, or the child that got it
    mon,                \* per start(): the _monitor_vm task it created
    \* ---- orphan cleanup (vm_process.py, cli.py) ----
    vfkit_pid,          \* <working-dir>/vfkit.pid: [kind, val]; kind "absent" = no file
    proc,               \* OS process table, per pid: "dead" | "alive" | "foreign" (alive,
                        \*   owned by another user: signalling it gives EPERM)
    term_pending,       \* pids that were sent SIGTERM and have not acted on it yet
    owner,              \* the supervisor that wrote vfkit.pid: [live, child]
    cl,                 \* one run of cleanup_orphaned_vfkit_processes and its history
    cli,                \* cli.main() of a supervisor entering, and what it met
    \* ---- REST calls (api.py, vm_process.py pause / resume) ----
    api,                \* the VfkitAPIClient and one pause() / resume() using it
    vm_running,         \* VMProcess.is_running (a vfkit child is present and alive)
    \* ---- activation socket (runner.py, socket_activation.py) ----
    sock,               \* one acquisition: its inputs (environment, descriptors handed
                        \*   over by launchd, descriptor table, config.port) and result
    \* ---- connection handlers (runner.py) ----
    conn,               \* per client connection: position of its handle_client task,
                        \*   its two stream writers, and how the handler ended
    serving,            \* the asyncio server made from the activation socket accepts
    rvm,                \* VirbyVMRunner.vm_process: "none" | "booting" | "ready"
    \* ---- DHCP lease lookup (ip_discovery.py) ----
    cfg,                \* VMConfig: the parsed JSON object and how loading it ended
    rn,                 \* one supervisor process: cli_main / main / VirbyVMRunner.run
    sg,                 \* signal_manager.py: the SignalManager and the dispositions of
                        \*   SIGTERM / SIGINT of its process
    macs                \* one lookup: the MAC given to IPDiscovery, the hw_address
                        \*   value of a lease entry, both normalised, and the comparison

cbVars == <<cbState, failure_count, last_failure_time, now, cbPc, cbConsec, cbTrial, cbLast>>

vmVars == <<vm, loc, child, vmState, lease, mon>>

orVars == <<vfkit_pid, proc, term_pending, owner, cl, cli>>

apiVars == <<api, vm_running>>

connVars == <<conn, serving, rvm>>

runVars == <<cfg, rn>>

auxVars == <<orVars, apiVars, sock, connVars, runVars, macs, sg>>

notOrVars == <<cbVars, vmVars, apiVars, sock, connVars, runVars, macs, sg>>

notApiVars == <<cbVars, vmVars, orVars, sock, connVars, runVars, macs, sg>>

notSockVars == <<cbVars, vmVars, orVars, apiVars, connVars, runVars, macs, sg>>

notConnVars == <<cbVars, vmVars, orVars, apiVars, sock, runVars, macs, sg>>

notMacVars == <<cbVars, vmVars, orVars, apiVars, sock, connVars, runVars, sg>>

notSigVars == <<cbVars, vmVars, orVars, apiVars, sock, connVars, runVars, macs>>

notRunVars == <<cbVars, vmVars, orVars, apiVars, sock, connVars, macs, sg>>

vars == <<cbVars, vmVars, auxVars>>

(***************************************************************************)
(* Bounds and program constants                                            *)
(***************************************************************************)
MaxTime == 12

failure_threshold == 3

cb_timeout == 10

NoTime == -1

NoTask == "none"

CBCallers == {"c1", "c2"}

MaxChildren == 2

MaxPid == 2

MaxFd == 3

MaxLaunchdFds == 2

max_retries == 2

state_max_retries == 3

NoProc == 0

Children == 1..MaxChildren

Tasks == {"t1", "t2"}

(***************************************************************************)
(* CircuitBreaker                                                          *)
(***************************************************************************)
CLOSED == "closed"

OPEN == "open"

HALF_OPEN == "half_open"

CBInit ==
    /\ cbState = CLOSED
    /\ failure_count = 0
    /\ last_failure_time = NoTime
    /\ now = 0
    /\ cbPc = [c \in CBCallers |-> "idle"]
    /\ cbConsec = 0
    /\ cbTrial = NoTask
    /\ cbLast = [kind |-> "none", task |-> NoTask, consec |-> 0, elapsed |-> NoTime]

\* call(), lines 48-52: the admission test made when the breaker is OPEN.
TimeoutElapsedBug(t, last) == t - last >= cb_timeout

TimeoutElapsed(t, last) == t - last > cb_timeout

\* _on_failure, line 72: the test that opens the breaker.
ThresholdReachedBug(n) == n > failure_threshold

ThresholdReached(n) == n >= failure_threshold

\* call(), lines 48-55: up to the suspension in "await func(...)".
CBCall(c) ==
    /\ cbPc[c] = "idle"
    /\ LET elapsed == IF last_failure_time = NoTime THEN NoTime ELSE now - last_failure_time
           ev(k) == [kind |-> k, task |-> c, consec |-> cbConsec, elapsed |-> elapsed]
       IN  IF cbState = OPEN
           THEN IF TimeoutElapsed(now, last_failure_time)
                THEN /\ cbState' = HALF_OPEN
                     /\ cbPc' = [cbPc EXCEPT ![c] = "in_func"]
                     /\ cbTrial' = c
                     /\ cbLast' = ev("invoked")
                ELSE /\ cbLast' = ev("rejected")        \* raise VMRuntimeError
                     /\ UNCHANGED <<cbState, cbPc, cbTrial>>
           ELSE /\ cbPc' = [cbPc EXCEPT ![c] = "in_func"]
                /\ cbLast' = ev("invoked")
                /\ UNCHANGED <<cbState, cbTrial>>
    /\ UNCHANGED <<failure_count, last_failure_time, now, cbConsec, vmVars, auxVars>>

\* _on_success without line 64: the breaker closes and keeps its count.
CBSuccessKeepsCount(c) ==
    /\ cbPc[c] = "in_func"
    /\ cbState' = CLOSED
    /\ cbPc' = [cbPc EXCEPT ![c] = "idle"]
    /\ cbConsec' = 0
    /\ cbTrial' = IF cbTrial = c THEN NoTask ELSE cbTrial
    /\ cbLast' = [kind |-> "success", task |-> c, consec |-> cbConsec, elapsed |-> NoTime]
    /\ UNCHANGED <<failure_count, last_failure_time, now, vmVars, auxVars>>

\* call(), lines 55-57 with _on_success (62-65): func returned.
CBSuccess(c) ==
    /\ cbPc[c] = "in_func"
    /\ failure_count' = 0
    /\ cbState' = CLOSED
    /\ cbPc' = [cbPc EXCEPT ![c] = "idle"]
    /\ cbConsec' = 0
    /\ cbTrial' = IF cbTrial = c THEN NoTask ELSE cbTrial
    /\ cbLast' = [kind |-> "success", task |-> c, consec |-> cbConsec, elapsed |-> NoTime]
    /\ UNCHANGED <<last_failure_time, now, vmVars, auxVars>>

\* call(), lines 58-60 with _on_failure (67-73): func raised.
CBFailure(c) ==
    /\ cbPc[c] = "in_func"
    /\ failure_count' = failure_count + 1
    /\ last_failure_time' = now
    /\ cbState' = IF ThresholdReached(failure_count + 1) THEN OPEN ELSE cbState
    /\ cbPc' = [cbPc EXCEPT ![c] = "idle"]
    /\ cbConsec' = cbConsec + 1
    /\ cbTrial' = IF cbTrial = c THEN NoTask ELSE cbTrial
    /\ cbLast' = [kind |-> "failure", task |-> c, consec |-> cbConsec, elapsed |-> NoTime]
    /\ UNCHANGED <<now, vmVars, auxVars>>

\* reset(), lines 75-79.
CBReset ==
    /\ failure_count' = 0
    /\ last_failure_time' = NoTime
    /\ cbState' = CLOSED
    /\ cbConsec' = 0
    /\ cbTrial' = NoTask
    /\ cbLast' = [kind |-> "reset", task |-> NoTask, consec |-> cbConsec, elapsed |-> NoTime]
    /\ UNCHANGED <<now, cbPc, vmVars, auxVars>>

\* The wall clock advances.
Tick ==
    /\ now < MaxTime
    /\ now' = now + 1
    /\ UNCHANGED <<cbState, failure_count, last_failure_time, cbPc, cbConsec, cbTrial, cbLast, vmVars, auxVars>>

NextCB ==
    \/ \E c \in CBCallers : CBCall(c)
    \/ \E c \in CBCallers : CBSuccess(c)
    \/ \E c \in CBCallers : CBFailure(c)
    \/ CBReset
    \/ Tick

(***************************************************************************)
(* VMProcess (vm_process.py)                                               *)
(*                                                                         *)
(* config.debug_enabled is False (the configuration default), so           *)
(* _output_task stays None and is not part of the state.  A REST query     *)
(* stands for the whole retried request; a query refused by the circuit    *)
(* breaker is a failed query.                                              *)
(* The working directory is writable (writing and removing vfkit.pid       *)
(* succeed) and VIRBY_SHUTDOWN_REQUESTED is not set in the environment.    *)
(* A query or command can succeed only while the child vm_process refers   *)
(* to is alive; it can always fail (connection error, HTTP error, timeout, *)
(* open circuit breaker).  The IP discovered for a guest is identified     *)
(* with the child that obtained the lease.                                 *)
(***************************************************************************)
\* What holds at the moment stop() returns to its caller.
NoRet == [stopped |-> FALSE, found_alive |-> FALSE, vm_process |-> NoProc,
          ip_address |-> NoProc, client |-> FALSE, pid_file |-> NoProc]

NoSaw == [seen |-> FALSE, pid_file |-> NoProc, vm_process |-> NoProc,
          last_spawn |-> NoProc, pid_alive |-> FALSE]

IdleLoc == [pc |-> "idle", op |-> "none", ctx |-> "none", cont |-> "none", wait |-> NoProc, ip |-> NoProc,
            last |-> "none", err |-> "none", fallback |-> FALSE,
            afterShutdown |-> FALSE, saw |-> NoSaw, found |-> NoProc, ret |-> NoRet]

VMInit ==
    /\ vm = [vm_process |-> NoProc, ip_address |-> NoProc, shutdown_requested |-> FALSE,
             pid_file |-> NoProc, client |-> FALSE, close_pending |-> FALSE]
    /\ loc = [t \in Tasks |-> IdleLoc]
    /\ child = [c \in Children |-> "none"]
    /\ vmState = [c \in Children |-> "running"]
    /\ lease = NoProc
    /\ mon = [c \in Children |-> [st |-> "none", target |-> NoProc]]

\* Number of vfkit children created so far; PIDs are handed out in order.
SpawnedIn(ch) == Cardinality({c \in Children : ch[c] # "none"})

Spawned == SpawnedIn(child)

\* is_running (property)
IsRunning(o, ch) == o.vm_process # NoProc /\ ch[o.vm_process] = "alive"

\* The coroutine's call returns or raises to its caller.
Finish(o, l, res, err) ==
    [o |-> o,
     l |-> [l EXCEPT !.pc = "idle", !.op = "none", !.ctx = "none", !.cont = "none", !.wait = NoProc,
                     !.ip = NoProc, !.found = NoProc, !.afterShutdown = FALSE, !.last = res,
                     !.err = err]]

\* _cleanup_vm_state without the removal of the PID file.
CleanupVmStateKeepsPid(o) ==
    [o EXCEPT !.vm_process = NoProc, !.ip_address = NoProc, !.close_pending = TRUE]

\* _cleanup_vm_state
CleanupVmState(o) ==
    [o EXCEPT !.vm_process = NoProc, !.ip_address = NoProc, !.close_pending = TRUE,
              !.pid_file = NoProc]

\* stop(): _cleanup_vm_state, then back in the caller of stop().
StopFinish(o, l, cont, ch) ==
    LET o1 == CleanupVmState(o)
    IN  CASE cont = "return" ->
                Finish(o1, [l EXCEPT !.ret = [stopped |-> TRUE,
                                              found_alive |-> (l.found # NoProc
                                                               /\ ch[l.found] = "alive"),
                                              vm_process |-> o1.vm_process,
                                              ip_address |-> o1.ip_address,
                                              client |-> o1.client,
                                              pid_file |-> o1.pid_file]],
                       "ok", "none")
          [] cont = "raise"  -> Finish(o1, l, "error", l.err)
          \* safe_pause_or_stop lines 738-739: return False.
          [] cont = "sps"    -> Finish(o1, l, "stopped", "none")
          \* safe_resume_or_start line 783: start() finds vm_process None and
          \* suspends in create_subprocess_exec.
          [] cont = "start"  ->
                [o |-> o1,
                 l |-> [l EXCEPT !.pc = "spawning", !.ctx = "start", !.cont = "none",
                                 !.wait = NoProc,
                                 !.saw = [seen |-> TRUE, pid_file |-> o1.pid_file,
                                          vm_process |-> o1.vm_process,
                                          last_spawn |-> SpawnedIn(ch), pid_alive |-> FALSE]]]

\* stop() lines 638-655 with terminate() called without the test of line 638.
StopTerminateNoGuard(o, l, cont, ch) ==
    IF o.vm_process = NoProc
    THEN Finish(o, l, "error", "no_process")
    ELSE IF ch[o.vm_process] = "alive"
         THEN [o |-> o, l |-> [l EXCEPT !.pc = "stop_wait", !.wait = o.vm_process,
                                        !.found = o.vm_process, !.cont = cont]]
         ELSE StopFinish(o, l, cont, ch)

\* stop() lines 638-655: terminate() and the wait for the child, or the cleanup.
StopTerminate(o, l, cont, ch) ==
    IF IsRunning(o, ch)
    THEN [o |-> o, l |-> [l EXCEPT !.pc = "stop_wait", !.wait = o.vm_process,
                                   !.found = o.vm_process, !.cont = cont]]
    ELSE StopFinish(o, l, cont, ch)

\* stop() lines 622-636: up to the first suspension.
StopEntry(o, l, cont, ch) ==
    LET o1 == [o EXCEPT !.shutdown_requested = TRUE]
    IN  IF o1.client
        THEN [o |-> o1, l |-> [l EXCEPT !.pc = "stop_closing", !.cont = cont]]
        ELSE StopTerminate(o1, l, cont, ch)

\* start() with _start_vm_process up to create_subprocess_exec; a raise goes to
\* the except clause of start(), which calls stop() and re-raises.
StartEntry(o, l, ch) ==
    LET l1 == [l EXCEPT !.saw = [seen |-> TRUE, pid_file |-> o.pid_file,
                                 vm_process |-> o.vm_process, last_spawn |-> SpawnedIn(ch),
                                 pid_alive |-> (o.pid_file # NoProc
                                                /\ ch[o.pid_file] = "alive")]]
    IN  IF o.vm_process # NoProc
        THEN StopEntry(o, [l1 EXCEPT !.err = "already_running"], "raise", ch)
        ELSE [o |-> o, l |-> [l1 EXCEPT !.pc = "spawning", !.ctx = "start"]]

\* An exception leaves _discover_ip_address: into the except clause of start(),
\* out of safe_resume_or_start (RUNNING branch), or into its except clause
\* (after resume), which calls stop() and then start().
DiscRaise(o, l, reason, ch) ==
    CASE l.ctx = "start"       -> StopEntry(o, [l EXCEPT !.err = reason], "raise", ch)
      [] l.ctx = "srs_running" -> Finish(o, l, "error", reason)
      [] l.ctx = "srs_resumed" ->
            StopEntry(o, [l EXCEPT !.err = reason, !.fallback = TRUE], "start", ch)

\* _discover_ip_address lines 386-396: one pass of the loop head, up to the
\* suspension in discover_ip().
DiscCheck(o, l, ch) ==
    IF o.shutdown_requested
    THEN DiscRaise(o, l, "shutdown", ch)
    ELSE IF o.vm_process # NoProc /\ ch[o.vm_process] = "exited"
         THEN DiscRaise(o, l, "vm_died", ch)
         ELSE [o |-> o, l |-> [l EXCEPT !.pc = "disc_poll"]]

\* stop() lines 622-655 run by one caller with no other coroutine scheduled
\* before it returns or suspends in the wait for the child.
StopAlone(o, l, ch) ==
    LET r1 == StopEntry(o, l, "return", ch)
    IN  IF r1.l.pc = "stop_closing"
        THEN StopTerminate([r1.o EXCEPT !.client = FALSE], r1.l, "return", ch)
        ELSE r1

Apply(t, r) ==
    /\ vm' = r.o
    /\ loc' = [loc EXCEPT ![t] = r.l]

\* The callers are interchangeable, so a new call is made by the first caller
\* that is not inside a call.  No call begins once all MaxChildren children
\* have been created and have exited.
CallerFree(t) ==
    /\ loc[t].pc = "idle"
    /\ t = "t2" => loc["t1"].pc # "idle"
    /\ Spawned < MaxChildren \/ \E c \in Children : child[c] = "alive"

\* A fresh call of the public coroutine op.  afterShutdown is history kept for
\* safe_resume_or_start: shutdown_requested was already true when it began.
NewCall(op) ==
    [IdleLoc EXCEPT !.op = op,
                    !.afterShutdown = (op = "safe_resume_or_start" /\ vm.shutdown_requested)]

\* start() called by task t.  The bound on the children: a call that can reach
\* create_subprocess_exec begins only while a child is left to create (calls in
\* flight go on).
StartBegin(t) ==
    /\ CallerFree(t)
    /\ Spawned < MaxChildren
    /\ Apply(t, StartEntry(vm, NewCall("start"), child))
    /\ UNCHANGED <<child, vmState, lease, mon, cbVars, auxVars>>

\* safe_resume_or_start line 747 / get_current_state lines 295-299.
SrsBegin(t) ==
    /\ CallerFree(t)
    /\ Spawned < MaxChildren
    /\ IF ~IsRunning(vm, child)
       THEN Apply(t, StartEntry(vm, NewCall("safe_resume_or_start"), child))
       ELSE Apply(t, [o |-> [vm EXCEPT !.client = TRUE],
                      l |-> [NewCall("safe_resume_or_start") EXCEPT !.pc = "srs_query"]])
    /\ UNCHANGED <<child, vmState, lease, mon, cbVars, auxVars>>

\* get_current_state lines 299-322 and safe_resume_or_start lines 749-761.
SrsQueryDone(t) ==
    /\ loc[t].pc = "srs_query"
    /\ \/ Apply(t, StartEntry(vm, loc[t], child))                \* STOPPED or UNKNOWN
       \/ /\ IsRunning(vm, child)
          /\ vmState[vm.vm_process] = "running"
          /\ IF vm.ip_address # NoProc
             THEN Apply(t, Finish(vm, loc[t], "ok", "none"))
             ELSE Apply(t, DiscCheck(vm, [loc[t] EXCEPT !.ctx = "srs_running"], child))
       \/ /\ IsRunning(vm, child)
          /\ vmState[vm.vm_process] = "paused"
          /\ Apply(t, [o |-> [vm EXCEPT !.client = TRUE],
                       l |-> [loc[t] EXCEPT !.pc = "srs_canresume"]])
    /\ UNCHANGED <<child, vmState, lease, mon, cbVars, auxVars>>

\* safe_resume_or_start lines 761-763, 774-775 and resume() lines 688-692.
SrsCanResumeDone(t) ==
    /\ loc[t].pc = "srs_canresume"
    /\ \/ Apply(t, StartEntry(vm, loc[t], child))                \* can_resume() is False
       \/ /\ IsRunning(vm, child)
          /\ vmState[vm.vm_process] = "paused"
          /\ Apply(t, [o |-> [vm EXCEPT !.client = TRUE],
                       l |-> [loc[t] EXCEPT !.pc = "resume_canresume"]])
    /\ UNCHANGED <<child, vmState, lease, mon, cbVars, auxVars>>

\* safe_resume_or_start lines 776-779: the except clause.
ResumeFailed(o, l, ch) ==
    StopEntry(o, [l EXCEPT !.err = "resume_failed", !.fallback = TRUE], "start", ch)

\* resume() lines 692-703: the can-resume check came back.
ResumeCanResumeDone(t) ==
    /\ loc[t].pc = "resume_canresume"
    /\ \/ Apply(t, ResumeFailed(vm, loc[t], child))              \* False, or timed out
       \/ /\ IsRunning(vm, child)
          /\ vmState[vm.vm_process] = "paused"
          /\ Apply(t, [o |-> [vm EXCEPT !.client = TRUE],
                       l |-> [loc[t] EXCEPT !.pc = "resume_post"]])
    /\ UNCHANGED <<child, vmState, lease, mon, cbVars, auxVars>>

\* resume() lines 699-709 and safe_resume_or_start lines 765-773.
ResumePostDone(t) ==
    /\ loc[t].pc = "resume_post"
    /\ \/ /\ Apply(t, ResumeFailed(vm, loc[t], child))
          /\ UNCHANGED vmState
       \/ /\ IsRunning(vm, child)
          /\ vmState' = [vmState EXCEPT ![vm.vm_process] = "running"]
          /\ IF vm.ip_address # NoProc
             THEN Apply(t, Finish(vm, loc[t], "ok", "none"))
             ELSE Apply(t, DiscCheck(vm, [loc[t] EXCEPT !.ctx = "srs_resumed"], child))
    /\ UNCHANGED <<child, lease, mon, cbVars, auxVars>>

\* _start_vm_process with line 368 left out: the coroutine goes on to discovery
\* and suspends there without having written the PID file.
SpawnDoneYieldsBeforePidWrite(t) ==
    /\ loc[t].pc = "spawning"
    /\ Spawned < MaxChildren
    /\ LET c == Spawned + 1
           o1 == [vm EXCEPT !.vm_process = c]
       IN  /\ child' = [child EXCEPT ![c] = "alive"]
           /\ mon' = [mon EXCEPT ![c] = [st |-> "new", target |-> NoProc]]
           /\ Apply(t, DiscCheck(o1, loc[t], child'))
    /\ UNCHANGED <<vmState, lease, cbVars, auxVars>>

\* _start_vm_process lines 364-372 and start() lines 580-586: the child exists,
\* the PID file is written, the monitor task is created, discovery begins.
SpawnDone(t) ==
    /\ loc[t].pc = "spawning"
    /\ Spawned < MaxChildren
    /\ LET c == Spawned + 1
           o1 == [vm EXCEPT !.vm_process = c, !.pid_file = c]
       IN  /\ child' = [child EXCEPT ![c] = "alive"]
           /\ mon' = [mon EXCEPT ![c] = [st |-> "new", target |-> NoProc]]
           /\ Apply(t, DiscCheck(o1, loc[t], child'))
    /\ UNCHANGED <<vmState, lease, cbVars, auxVars>>

\* _start_vm_process lines 374-375: create_subprocess_exec raised.
SpawnFail(t) ==
    /\ loc[t].pc = "spawning"
    /\ Apply(t, StopEntry(vm, [loc[t] EXCEPT !.err = "spawn_failed"], "raise", child))
    /\ UNCHANGED <<child, vmState, lease, mon, cbVars, auxVars>>

\* _discover_ip_address lines 396-402 and start() lines 588-591.
DiscPollDone(t) ==
    /\ loc[t].pc = "disc_poll"
    /\ IF lease # NoProc
       THEN LET o1 == [vm EXCEPT !.ip_address = lease]
            IN  IF loc[t].ctx = "start"
                THEN Apply(t, [o |-> o1, l |-> [loc[t] EXCEPT !.pc = "ssh_wait", !.ip = lease]])
                ELSE Apply(t, Finish(o1, loc[t], "ok", "none"))
       ELSE Apply(t, [o |-> vm, l |-> [loc[t] EXCEPT !.pc = "disc_sleep"]])
    /\ UNCHANGED <<child, vmState, lease, mon, cbVars, auxVars>>

\* _discover_ip_address lines 402-406, 386-396: the sleep ends.
DiscWake(t) ==
    /\ loc[t].pc = "disc_sleep"
    /\ \/ Apply(t, DiscCheck(vm, loc[t], child))
       \/ Apply(t, DiscRaise(vm, loc[t], "ip_timeout", child))
    /\ UNCHANGED <<child, vmState, lease, mon, cbVars, auxVars>>

\* _wait_for_ssh lines 610-613 and start() lines 594-595: a probe succeeded.
SshReady(t) ==
    /\ loc[t].pc = "ssh_wait"
    /\ child[loc[t].ip] = "alive"
    /\ vmState[loc[t].ip] = "running"
    /\ Apply(t, Finish(vm, loc[t], "ok", "none"))
    /\ UNCHANGED <<child, vmState, lease, mon, cbVars, auxVars>>

\* _wait_for_ssh lines 619-620 and start() lines 592, 597-600.
SshTimeout(t) ==
    /\ loc[t].pc = "ssh_wait"
    /\ Apply(t, StopEntry(vm, [loc[t] EXCEPT !.err = "ssh_timeout"], "raise", child))
    /\ UNCHANGED <<child, vmState, lease, mon, cbVars, auxVars>>

\* stop() called by task t.
StopBegin(t) ==
    /\ CallerFree(t)
    /\ Apply(t, StopEntry(vm, NewCall("stop"), "return", child))
    /\ UNCHANGED <<child, vmState, lease, mon, cbVars, auxVars>>

\* stop() line 628 / api.close() lines 82-84: the client is closed.
StopCloseDone(t) ==
    /\ loc[t].pc = "stop_closing"
    /\ Apply(t, StopTerminate([vm EXCEPT !.client = FALSE], loc[t], loc[t].cont, child))
    /\ UNCHANGED <<child, vmState, lease, mon, cbVars, auxVars>>

\* stop() lines 645-646, 655: the child exited within the timeout.
StopWaitDone(t) ==
    /\ loc[t].pc = "stop_wait"
    /\ child[loc[t].wait] = "exited"
    /\ Apply(t, StopFinish(vm, loc[t], loc[t].cont, child))
    /\ UNCHANGED <<child, vmState, lease, mon, cbVars, auxVars>>

\* stop() lines 647-653: the wait timed out; kill() is called on whatever
\* self.vm_process is now (AttributeError when it is None, caught at 652).
StopWaitTimeout(t) ==
    /\ loc[t].pc = "stop_wait"
    /\ child[loc[t].wait] = "alive"
    /\ IF vm.vm_process = NoProc
       THEN Apply(t, StopFinish(vm, loc[t], loc[t].cont, child))
       ELSE Apply(t, [o |-> vm,
                      l |-> [loc[t] EXCEPT !.pc = "stop_killwait", !.wait = vm.vm_process]])
    /\ UNCHANGED <<child, vmState, lease, mon, cbVars, auxVars>>

\* stop() lines 650-655: the killed child exited.
StopKillDone(t) ==
    /\ loc[t].pc = "stop_killwait"
    /\ child[loc[t].wait] = "exited"
    /\ Apply(t, StopFinish(vm, loc[t], loc[t].cont, child))
    /\ UNCHANGED <<child, vmState, lease, mon, cbVars, auxVars>>

\* pause() raises VMRuntimeError: to the caller, or into the except clause
\* of safe_pause_or_stop (lines 733-739), which goes on to stop().
PauseFailed(o, l, e, ch) ==
    IF l.ctx = "sps"
    THEN StopEntry(o, [l EXCEPT !.err = e, !.fallback = TRUE], "sps", ch)
    ELSE Finish(o, l, "error", e)

\* pause() lines 661-665.
PauseBegin(t) ==
    /\ CallerFree(t)
    /\ IF ~IsRunning(vm, child)
       THEN Apply(t, Finish(vm, NewCall("pause"), "error", "not_running"))
       ELSE Apply(t, [o |-> [vm EXCEPT !.client = TRUE],
                      l |-> [NewCall("pause") EXCEPT !.pc = "pause_canpause"]])
    /\ UNCHANGED <<child, vmState, lease, mon, cbVars, auxVars>>

\* pause() without the test of can_pause at lines 667-668: the POST is sent
\* whatever the state query answered.
PauseCanPauseDoneIgnoresAnswer(t) ==
    /\ loc[t].pc = "pause_canpause"
    /\ \/ Apply(t, Finish(vm, loc[t], "error", "cannot_pause"))
       \/ /\ IsRunning(vm, child)
          /\ Apply(t, [o |-> [vm EXCEPT !.client = TRUE],
                       l |-> [loc[t] EXCEPT !.pc = "pause_post"]])
    /\ UNCHANGED <<child, vmState, lease, mon, cbVars, auxVars>>

\* pause() lines 665-676.
PauseCanPauseDone(t) ==
    /\ loc[t].pc = "pause_canpause"
    /\ \/ Apply(t, PauseFailed(vm, loc[t], "cannot_pause", child))
       \/ /\ IsRunning(vm, child)
          /\ vmState[vm.vm_process] = "running"
          /\ Apply(t, [o |-> [vm EXCEPT !.client = TRUE],
                       l |-> [loc[t] EXCEPT !.pc = "pause_post"]])
    /\ UNCHANGED <<child, vmState, lease, mon, cbVars, auxVars>>

\* pause() lines 672-682.
PausePostDone(t) ==
    /\ loc[t].pc = "pause_post"
    /\ \/ /\ Apply(t, PauseFailed(vm, loc[t], "pause_failed", child))
          /\ UNCHANGED vmState
       \/ /\ IsRunning(vm, child)
          /\ vmState' = [vmState EXCEPT ![vm.vm_process] = "paused"]
          /\ Apply(t, Finish(vm, loc[t], IF loc[t].ctx = "sps" THEN "paused" ELSE "ok",
                             "none"))
    /\ UNCHANGED <<child, lease, mon, cbVars, auxVars>>

\* safe_pause_or_stop lines 720-728: not running, or up to the suspension in
\* the state query of can_pause().
SpsBegin(t) ==
    /\ CallerFree(t)
    /\ IF ~IsRunning(vm, child)
       THEN Apply(t, Finish(vm, NewCall("safe_pause_or_stop"), "not_running", "none"))
       ELSE Apply(t, [o |-> [vm EXCEPT !.client = TRUE],
                      l |-> [NewCall("safe_pause_or_stop") EXCEPT !.pc = "sps_canpause",
                                                                 !.ctx = "sps"]])
    /\ UNCHANGED <<child, vmState, lease, mon, cbVars, auxVars>>

\* safe_pause_or_stop lines 728-739: can_pause() answered (or timed out);
\* pause() lines 661-665 when it answered True.
SpsCanPauseDone(t) ==
    /\ loc[t].pc = "sps_canpause"
    /\ \/ Apply(t, StopEntry(vm, [loc[t] EXCEPT !.fallback = TRUE], "sps", child))
       \/ /\ IsRunning(vm, child)
          /\ vmState[vm.vm_process] = "running"
          /\ Apply(t, [o |-> [vm EXCEPT !.client = TRUE],
                       l |-> [loc[t] EXCEPT !.pc = "pause_canpause"]])
    /\ UNCHANGED <<child, vmState, lease, mon, cbVars, auxVars>>

\* _monitor_vm lines 441-442: the task created by start() runs for the first time.
MonitorStart(m) ==
    /\ mon[m].st = "new"
    /\ IF vm.vm_process = NoProc
       THEN /\ mon' = [mon EXCEPT ![m].st = "done"]
            /\ UNCHANGED vm
       ELSE IF child[vm.vm_process] = "exited"
            THEN /\ mon' = [mon EXCEPT ![m].st = "done"]
                 /\ vm' = CleanupVmState(vm)
            ELSE /\ mon' = [mon EXCEPT ![m] = [st |-> "wait", target |-> vm.vm_process]]
                 /\ UNCHANGED vm
    /\ UNCHANGED <<loc, child, vmState, lease, cbVars, auxVars>>

\* _monitor_vm lines 442-451: the awaited child exited.  self.vm_process is
\* read again: when it is None the task dies on the attribute access.
MonitorWake(m) ==
    /\ mon[m].st = "wait"
    /\ child[mon[m].target] = "exited"
    /\ mon' = [mon EXCEPT ![m] = [st |-> "done", target |-> NoProc]]
    /\ vm' = IF vm.vm_process = NoProc THEN vm ELSE CleanupVmState(vm)
    /\ UNCHANGED <<loc, child, vmState, lease, cbVars, auxVars>>

\* _cleanup_vm_state lines 551-552 with api.close() lines 80-84: the task
\* created for api_client.close() runs.
ApiCloseTask ==
    /\ vm.close_pending
    /\ vm' = [vm EXCEPT !.client = FALSE, !.close_pending = FALSE]
    /\ UNCHANGED <<loc, child, vmState, lease, mon, cbVars, auxVars>>

\* The vfkit child exits (guest shutdown, crash, or a signal it was sent); its
\* hypervisor state ends with it.
ChildExit(c) ==
    /\ child[c] = "alive"
    /\ child' = [child EXCEPT ![c] = "exited"]
    /\ vmState' = [vmState EXCEPT ![c] = "running"]
    /\ UNCHANGED <<vm, loc, lease, mon, cbVars, auxVars>>

\* The running guest obtains its DHCP lease; the entry stays in the lease file.
GuestLease(c) ==
    /\ child[c] = "alive"
    /\ vmState[c] = "running"
    /\ lease # c
    /\ lease' = c
    /\ UNCHANGED <<vm, loc, child, vmState, mon, cbVars, auxVars>>

NextVM ==
    \/ \E t \in Tasks : StartBegin(t)
    \/ \E t \in Tasks : SrsBegin(t)
    \/ \E t \in Tasks : SrsQueryDone(t)
    \/ \E t \in Tasks : SrsCanResumeDone(t)
    \/ \E t \in Tasks : ResumeCanResumeDone(t)
    \/ \E t \in Tasks : ResumePostDone(t)
    \/ \E t \in Tasks : SpawnDone(t)
    \/ \E t \in Tasks : SpawnFail(t)
    \/ \E t \in Tasks : DiscPollDone(t)
    \/ \E t \in Tasks : DiscWake(t)
    \/ \E t \in Tasks : SshReady(t)
    \/ \E t \in Tasks : SshTimeout(t)
    \/ \E t \in Tasks : StopBegin(t)
    \/ \E t \in Tasks : StopCloseDone(t)
    \/ \E t \in Tasks : StopWaitDone(t)
    \/ \E t \in Tasks : StopWaitTimeout(t)
    \/ \E t \in Tasks : StopKillDone(t)
    \/ \E t \in Tasks : PauseBegin(t)
    \/ \E t \in Tasks : PauseCanPauseDone(t)
    \/ \E t \in Tasks : PausePostDone(t)
    \/ ApiCloseTask
    \/ \E m \in Children : MonitorStart(m)
    \/ \E m \in Children : MonitorWake(m)
    \/ \E c \in Children : ChildExit(c)
    \/ \E c \in Children : GuestLease(c)

(***************************************************************************)
(* Orphan cleanup: cleanup_orphaned_vfkit_processes (vm_process.py) and its *)
(* call in cli.main().  The working directory is shared by OS processes:   *)
(* the supervisor that wrote vfkit.pid (owner), a process that runs the    *)
(* cleanup function, and a supervisor that enters through cli.main().      *)
(* The synchronous variant (_cleanup_orphaned_vfkit_processes_sync) has    *)
(* the same body with time.sleep for asyncio.sleep; other OS processes run *)
(* during either sleep.                                                    *)
(***************************************************************************)
Pids == 1..MaxPid

NoFile == [kind |-> "absent", val |-> 0]

\* What a file left in the working directory can hold: nothing, text that is
\* not an integer, an integer (non-positive or a pid), or a positive integer
\* that int() accepts and that does not fit pid_t (kind "bigint", e.g. 2^31).
FileContents ==
    {[kind |-> k, val |-> 0] : k \in {"empty", "nonint", "bigint"}}
        \cup {[kind |-> "int", val |-> v] : v \in {-1, 0} \cup Pids}

NoCl == [pc |-> "idle", pid |-> 0, read |-> NoFile, locked |-> FALSE, probe |-> "none",
         probe2 |-> "none", sigs |-> <<>>, result |-> "none", file_after |-> NoFile,
         hit_live_child |-> FALSE, removed_live_file |-> FALSE]

OrphanInit ==
    /\ vfkit_pid = NoFile
    /\ proc = [p \in Pids |-> "dead"]
    /\ term_pending = {}
    /\ owner = [live |-> FALSE, child |-> 0]
    /\ cl = NoCl
    /\ cli = [pc |-> "entry", leftover |-> FALSE, orphan |-> 0, snap |-> NoFile,
              owner_at_run |-> FALSE, orphan_untouched |-> FALSE]

\* fcntl.flock(fd, LOCK_SH | LOCK_NB) raises BlockingIOError only while another
\* open file description holds LOCK_EX on the file.  _write_pid_file writes a
\* temporary file and renames it; neither it nor any other code of the package
\* takes a lock on vfkit.pid.
ExclusiveLockHeld == FALSE

\* os.kill(pid, sig): "overflow" (pid does not fit pid_t: OverflowError),
\* "noproc" (ProcessLookupError), "eperm" (PermissionError) or "ok".
KillOutcome(f, pr) ==
    IF f.kind = "bigint" THEN "overflow"
    ELSE IF f.val \notin Pids \/ pr[f.val] = "dead" THEN "noproc"
    ELSE IF pr[f.val] = "foreign" THEN "eperm"
    ELSE "ok"

\* The file belongs to a live supervisor: it names that supervisor's child.
FileOfLiveOwner ==
    owner.live /\ vfkit_pid.kind = "int" /\ vfkit_pid.val = owner.child

\* start(): _start_vm_process spawns vfkit and _write_pid_file records its pid.
OwnerStart(p) ==
    /\ ~owner.live
    /\ proc[p] = "dead"
    /\ proc' = [proc EXCEPT ![p] = "alive"]
    /\ term_pending' = term_pending \ {p}
    /\ owner' = [live |-> TRUE, child |-> p]
    /\ vfkit_pid' = [kind |-> "int", val |-> p]
    /\ UNCHANGED <<cl, cli, notOrVars>>

\* stop(): the child is terminated and reaped, _cleanup_pid_file unlinks.
OwnerStop ==
    /\ owner.live
    /\ proc' = [proc EXCEPT ![owner.child] = "dead"]
    /\ term_pending' = term_pending \ {owner.child}
    /\ owner' = [live |-> FALSE, child |-> 0]
    /\ vfkit_pid' = NoFile
    /\ UNCHANGED <<cl, cli, notOrVars>>

\* Unclean shutdown: the supervisor is gone, its child and vfkit.pid stay.
OwnerCrash ==
    /\ owner.live
    /\ owner' = [live |-> FALSE, child |-> 0]
    /\ UNCHANGED <<vfkit_pid, proc, term_pending, cl, cli, notOrVars>>

\* A file of any content is found in the working directory of no supervisor.
LeftoverFile(c) ==
    /\ ~owner.live
    /\ cl.pc # "sleep"
    /\ vfkit_pid = NoFile
    /\ vfkit_pid' = c
    /\ UNCHANGED <<proc, term_pending, owner, cl, cli, notOrVars>>

\* A process that was sent SIGTERM exits; one that no supervisor owns exits.
ProcExit(p) ==
    /\ proc[p] = "alive"
    /\ p \in term_pending \/ ~(owner.live /\ owner.child = p)
    /\ proc' = [proc EXCEPT ![p] = "dead"]
    /\ term_pending' = term_pending \ {p}
    /\ UNCHANGED <<vfkit_pid, owner, cl, cli, notOrVars>>

\* The pid of a dead process is given to a process of another user.
PidReuse(p) ==
    /\ proc[p] = "dead"
    /\ proc' = [proc EXCEPT ![p] = "foreign"]
    /\ UNCHANGED <<vfkit_pid, term_pending, owner, cl, cli, notOrVars>>

\* That process exits.
ForeignExit(p) ==
    /\ proc[p] = "foreign"
    /\ proc' = [proc EXCEPT ![p] = "dead"]
    /\ UNCHANGED <<vfkit_pid, term_pending, owner, cl, cli, notOrVars>>

\* cleanup_orphaned_vfkit_processes up to its return or to the 0.5 s sleep.
CleanupOrphanedBegin ==
    /\ cl.pc \in {"idle", "done"}
    /\ LET c0   == [NoCl EXCEPT !.hit_live_child = cl.hit_live_child,
                                !.removed_live_file = cl.removed_live_file]
           out  == KillOutcome(vfkit_pid, proc)
           Ret(c, res, file) ==
               /\ cl' = [c EXCEPT !.pc = "done", !.result = res, !.file_after = file]
               /\ vfkit_pid' = file
           Unlink(c, res) ==
               Ret([c EXCEPT !.removed_live_file = @ \/ FileOfLiveOwner], res, NoFile)
       IN  IF vfkit_pid.kind = "absent"
           THEN Ret(c0, "no_file", vfkit_pid) /\ UNCHANGED term_pending
           ELSE IF ExclusiveLockHeld
           THEN Ret(c0, "lock_failed", vfkit_pid) /\ UNCHANGED term_pending
           ELSE LET c1 == [c0 EXCEPT !.locked = TRUE, !.read = vfkit_pid] IN
                IF \/ vfkit_pid.kind \in {"empty", "nonint"}
                   \/ vfkit_pid.kind = "int" /\ vfkit_pid.val <= 0
                THEN Unlink(c1, "removed") /\ UNCHANGED term_pending
                ELSE LET c2 == [c1 EXCEPT !.pid = vfkit_pid.val, !.probe = out] IN
                     CASE out = "noproc" ->
                              Unlink(c2, "removed") /\ UNCHANGED term_pending
                       [] out \in {"overflow", "eperm"} ->
                              Ret(c2, "error", vfkit_pid) /\ UNCHANGED term_pending
                       [] out = "ok" ->
                              /\ cl' = [c2 EXCEPT
                                          !.pc = "sleep",
                                          !.sigs = <<"SIGTERM">>,
                                          !.hit_live_child =
                                              @ \/ (owner.live /\ owner.child = c2.pid)]
                              /\ term_pending' = term_pending \cup {c2.pid}
                              /\ UNCHANGED vfkit_pid
    /\ UNCHANGED <<proc, owner, cli, notOrVars>>

\* cleanup_orphaned_vfkit_processes from the end of the sleep to its return.
CleanupOrphanedWake ==
    /\ cl.pc = "sleep"
    /\ LET out == KillOutcome([kind |-> "int", val |-> cl.pid], proc)
           c1  == [cl EXCEPT !.pc = "done", !.probe2 = out]
       IN  CASE out = "ok" ->
                    /\ cl' = [c1 EXCEPT
                                !.sigs = Append(@, "SIGKILL"),
                                !.hit_live_child =
                                    @ \/ (owner.live /\ owner.child = cl.pid),
                                !.removed_live_file = @ \/ FileOfLiveOwner,
                                !.result = "removed"]
                    /\ proc' = [proc EXCEPT ![cl.pid] = "dead"]
                    /\ term_pending' = term_pending \ {cl.pid}
                    /\ vfkit_pid' = NoFile
             [] out = "noproc" ->
                    /\ cl' = [c1 EXCEPT !.removed_live_file = @ \/ FileOfLiveOwner,
                                        !.result = "removed"]
                    /\ vfkit_pid' = NoFile
                    /\ UNCHANGED <<proc, term_pending>>
             [] OTHER ->
                    /\ cl' = [c1 EXCEPT !.result = "error", !.file_after = vfkit_pid]
                    /\ UNCHANGED <<vfkit_pid, proc, term_pending>>
    /\ UNCHANGED <<owner, cli, notOrVars>>

\* cli.main(), line 92: the coroutine function is called and its coroutine
\* object is dropped without being awaited, so none of its body runs.
CliCleanupCall ==
    /\ cli.pc = "entry"
    /\ cli' = [cli EXCEPT
                  !.pc = "called",
                  !.leftover = vfkit_pid.kind # "absent" /\ ~owner.live,
                  !.orphan = IF /\ ~owner.live /\ vfkit_pid.kind = "int"
                                /\ vfkit_pid.val > 0
                                /\ KillOutcome(vfkit_pid, proc) = "ok"
                             THEN vfkit_pid.val ELSE 0]
    /\ UNCHANGED <<vfkit_pid, proc, term_pending, owner, cl, notOrVars>>

\* cli.main(), lines 97-98: the runner is constructed and run.
CliRunnerRun ==
    /\ cli.pc = "called"
    /\ cli' = [cli EXCEPT
                  !.pc = "running",
                  !.snap = vfkit_pid,
                  !.owner_at_run = owner.live,
                  !.orphan_untouched = /\ cli.orphan # 0
                                       /\ proc[cli.orphan] = "alive"
                                       /\ cli.orphan \notin term_pending]
    /\ UNCHANGED <<vfkit_pid, proc, term_pending, owner, cl, notOrVars>>

NextOrphan ==
    \/ \E p \in Pids : OwnerStart(p)
    \/ OwnerStop
    \/ OwnerCrash
    \/ \E c \in FileContents : LeftoverFile(c)
    \/ \E p \in Pids : ProcExit(p)
    \/ \E p \in Pids : PidReuse(p)
    \/ \E p \in Pids : ForeignExit(p)
    \/ CleanupOrphanedBegin
    \/ CleanupOrphanedWake
    \/ CliCleanupCall
    \/ CliRunnerRun

(***************************************************************************)
(* REST calls: VfkitAPIClient._call_api under retry_on_failure (api.py),   *)
(* used by pause() / resume() through can_pause / can_resume and           *)
(* _get_state_info (vm_process.py), next to the state query that           *)
(* get_current_state makes through the circuit breaker (CBCall, CBSuccess, *)
(* CBFailure: the wrapped function is _get_state_info_raw).                *)
(* The sleep of the retry wrapper is part of the attempt that follows it.  *)
(***************************************************************************)
Transport == {"ok", "ConnectError", "TimeoutException", "HTTPStatusError"}

NoLast == [kind |-> "none", transport |-> "none", sent |-> 0, fc_before |-> 0,
           fc_after |-> 0]

ApiInit ==
    /\ api = [pc |-> "idle", phase |-> "none", outer |-> 0, deco |-> 0,
              client |-> FALSE, entry_running |-> FALSE, client_at_entry |-> FALSE,
              cb_at_send |-> CLOSED, sent |-> 0, result |-> "none", last |-> NoLast]
    /\ vm_running = FALSE

\* VMProcess.__init__, lines 207-210: is_running_check=self.is_running passes the
\* value of the property at construction, when vm_process is None.
is_running_check == FALSE

\* _call_api, lines 127-128: `self._is_running_check and not self._is_running_check()`.
IsRunningGate(running) == IF is_running_check = FALSE THEN FALSE ELSE ~running

\* _call_api, lines 132-147: what the body raises for a transport outcome.
CallApiRaises(outcome) == IF outcome = "ok" THEN "none" ELSE "VMRuntimeError"

\* retry_on_failure, line 41: the exceptions the wrapper retries on.
RetryCatches(exc) == exc \in {"ConnectError", "TimeoutException"}

\* The api_client call in progress ends by raising: history of the call.
ApiRaised(a, outcome, fc, fc2) ==
    [a EXCEPT !.last = [kind |-> "raised", transport |-> outcome, sent |-> a.sent,
                        fc_before |-> fc, fc_after |-> fc2]]

\* pause() / resume() ends.
ApiFinish(a, res) ==
    [a EXCEPT !.pc = "idle", !.phase = "none", !.outer = 0, !.deco = 0, !.sent = 0,
              !.result = res]

RECURSIVE CallApi(_, _, _, _, _)

RECURSIVE WrapperRaised(_, _, _, _, _, _, _)

\* The callers of api_client.get / post on an exception: _get_state_info
\* (266-273) sleeps and retries or returns None, after which can_pause is False
\* and pause() raises; pause() / resume() re-raise what post raised (679-682).
CallerRaised(a, outcome, fc, fc2) ==
    LET a1 == ApiRaised(a, outcome, fc, fc2) IN
    IF a.phase = "query" /\ a.outer < state_max_retries - 1
    THEN [a1 EXCEPT !.pc = "sleep"]
    ELSE ApiFinish(a1, "VMRuntimeError")

\* retry_on_failure.wrapper, lines 41-45, for what func raised.
WrapperRaised(a, exc, outcome, running, cb, fc, fc2) ==
    IF RetryCatches(exc) /\ a.deco < max_retries
    THEN CallApi([a EXCEPT !.deco = @ + 1], running, cb, fc, fc2)
    ELSE CallerRaised(a, outcome, fc, fc2)

\* One invocation of _call_api up to `await client.request(...)`.
CallApi(a, running, cb, fc, fc2) ==
    IF IsRunningGate(running)
    THEN WrapperRaised(a, "VMRuntimeError", "none", running, cb, fc, fc2)
    ELSE [a EXCEPT !.pc = "http", !.entry_running = running,
                   !.client_at_entry = a.client, !.client = TRUE,
                   !.cb_at_send = cb, !.sent = @ + 1]

\* pause() / resume(), lines 661-665: is_running, then can_pause / can_resume.
PauseResumeBegin ==
    /\ api.pc = "idle"
    /\ vm_running
    /\ api' = CallApi([api EXCEPT !.phase = "query", !.result = "none", !.last = NoLast],
                      vm_running, cbState, failure_count, failure_count)
    /\ UNCHANGED <<vm_running, notApiVars>>

\* The HTTP request completes; _call_api, its wrapper and the caller go on.
HttpDone(outcome, can) ==
    /\ api.pc = "http"
    /\ ~vm_running => outcome \in {"ConnectError", "TimeoutException"}
    /\ UNCHANGED <<vm_running, notApiVars>>
    /\ LET exc == CallApiRaises(outcome)
           ret == [api EXCEPT !.last = [kind |-> "returned", transport |-> outcome,
                                        sent |-> api.sent, fc_before |-> failure_count,
                                        fc_after |-> failure_count']]
       IN  api' =
             IF exc # "none"
             THEN WrapperRaised(api, exc, outcome, vm_running, cbState,
                                failure_count, failure_count')
             ELSE IF api.phase = "post" THEN ApiFinish(ret, "ok")
             ELSE IF ~can THEN ApiFinish(ret, "VMRuntimeError")
             ELSE CallApi([ret EXCEPT !.phase = "post", !.outer = 0, !.deco = 0,
                                      !.sent = 0],
                          vm_running, cbState, failure_count, failure_count')

\* _get_state_info, lines 271 and 265: the sleep ends, the next attempt starts.
GetStateInfoWake ==
    /\ api.pc = "sleep"
    /\ api' = CallApi([api EXCEPT !.outer = @ + 1, !.deco = 0, !.sent = 0],
                      vm_running, cbState, failure_count, failure_count)
    /\ UNCHANGED <<vm_running, notApiVars>>

\* with_timeout, lines 33-38: the timeout around can_pause / can_resume or
\* around the POST expires.
WithTimeoutExpires ==
    /\ api.pc \in {"http", "sleep"}
    /\ api' = ApiFinish(api, "VMRuntimeError")
    /\ UNCHANGED <<vm_running, notApiVars>>

\* A child is started.
VmStart ==
    /\ ~vm_running
    /\ vm_running' = TRUE
    /\ UNCHANGED <<api, notApiVars>>

\* The child exits.
VmExit ==
    /\ vm_running
    /\ vm_running' = FALSE
    /\ UNCHANGED <<api, notApiVars>>

\* api_client.close(), run by the task that _cleanup_vm_state created.
ApiClose ==
    /\ ~vm_running
    /\ api.client
    /\ api.pc # "http"
    /\ api' = [api EXCEPT !.client = FALSE]
    /\ UNCHANGED <<vm_running, notApiVars>>

NextApi ==
    \/ \E c \in CBCallers : CBCall(c)
    \/ \E c \in CBCallers : CBSuccess(c)
    \/ \E c \in CBCallers : CBFailure(c)
    \/ PauseResumeBegin
    \/ \E o \in Transport, can \in BOOLEAN : HttpDone(o, can)
    \/ GetStateInfoWake
    \/ WithTimeoutExpires
    \/ VmStart
    \/ VmExit
    \/ ApiClose

(***************************************************************************)
(* Activation socket: VirbyVMRunner._get_activation_socket (runner.py) and *)
(* SocketActivation.get_activation_socket (socket_activation.py), which    *)
(* have the same body.  A descriptor is closed, a file, or a socket; port  *)
(* 0 stands for a socket whose getsockname() fails or has no port.         *)
(***************************************************************************)
Fds == 1..MaxFd

Ports == {1024, 1025}

Descriptors ==
    {[type |-> "closed", port |-> 0], [type |-> "file", port |-> 0]}
        \cup {[type |-> "socket", port |-> p] : p \in {0} \cup Ports}

\* Sequences of distinct descriptors returned by launch_activate_socket.
LaunchdFdLists ==
    {l \in UNION {[1..n -> Fds] : n \in 0..MaxLaunchdFds} :
        \A i, j \in DOMAIN l : l[i] = l[j] => i = j}

NoSock == [kind |-> "none", fd |-> 0, port |-> 0, expected |-> 0]

SockInit ==
    sock = [pc |-> "init", activated |-> FALSE, fds |-> <<>>,
            tab |-> [f \in Fds |-> [type |-> "closed", port |-> 0]],
            port |-> 0, result |-> NoSock]

\* socket.fromfd(fd, ...) and getsockname() succeed and give a port.
Usable(d) == d.type = "socket" /\ d.port # 0

RECURSIVE LaunchdPick(_, _)

\* Lines 156-179: the first descriptor of the list usable as a socket (0: none);
\* it is returned whether or not its port is config.port.
LaunchdPick(fds, tab) ==
    IF fds = <<>> THEN 0
    ELSE IF Usable(tab[Head(fds)]) THEN Head(fds)
    ELSE LaunchdPick(Tail(fds), tab)

\* Lines 195-233: the scan of the descriptor table.
ScanMatches(tab, port) == {f \in Fds : Usable(tab[f]) /\ tab[f].port = port}

found_sockets(tab, port) == {f \in Fds : Usable(tab[f]) /\ tab[f].port # port}

Returned(f, tab) == [kind |-> "socket", fd |-> f, port |-> tab[f].port, expected |-> 0]

get_activation_socket(activated, fds, tab, port) ==
    IF ~activated
    THEN [kind |-> "VMStartupError", fd |-> 0, port |-> 0, expected |-> 0]
    ELSE LET l == LaunchdPick(fds, tab)
             m == ScanMatches(tab, port)
             o == found_sockets(tab, port)
         IN  IF l # 0 THEN Returned(l, tab)
             ELSE IF m # {} THEN Returned(CHOOSE f \in m : \A g \in m : f <= g, tab)
             ELSE IF Cardinality(o) = 1 THEN Returned(CHOOSE f \in o : TRUE, tab)
             ELSE [kind |-> "VMStartupError", fd |-> 0, port |-> 0, expected |-> port]

\* launchd starts the supervisor with an environment and open descriptors.
LaunchdStart(a, fds, tab, p) ==
    /\ sock.pc = "init"
    /\ sock' = [sock EXCEPT !.pc = "started", !.activated = a, !.fds = fds,
                            !.tab = tab, !.port = p]
    /\ UNCHANGED notSockVars

\* run(), line 626: self._activation_socket = self._get_activation_socket().
GetActivationSocket ==
    /\ sock.pc = "started"
    /\ sock' = [sock EXCEPT
                   !.pc = "done",
                   !.result = get_activation_socket(sock.activated, sock.fds,
                                                    sock.tab, sock.port)]
    /\ UNCHANGED notSockVars

NextSock ==
    \/ \E a \in BOOLEAN, fds \in LaunchdFdLists, tab \in [Fds -> Descriptors],
          p \in Ports : LaunchdStart(a, fds, tab, p)
    \/ GetActivationSocket

(***************************************************************************)
(* Connection handlers: VirbyVMRunner._handle_activation_connections,      *)
(* _ensure_vm_ready and _proxy_connection (runner.py).  Each accepted      *)
(* connection runs handle_client in a task of its own.                     *)
(***************************************************************************)
Conns == {"k1", "k2"}

NoConn == [pc |-> "none", client_open |-> FALSE, vm_open |-> FALSE, err |-> "none",
           ended |-> "none", up |-> FALSE, down |-> FALSE]

ConnInit ==
    /\ conn = [c \in Conns |-> NoConn]
    /\ serving = TRUE
    /\ rvm = "none"

\* _proxy_connection, lines 340-347, with handle_client, lines 258-261: an
\* exception of kind e raised in the try block is logged, the finally clause
\* closes client_writer, and the handler task returns.
ProxyFailsKeepsClient(cn, c, e) ==
    [cn EXCEPT ![c] = [@ EXCEPT !.pc = "closed", !.vm_open = FALSE, !.err = e,
                                !.ended = "returned"]]

ProxyFails(cn, c, e) ==
    [cn EXCEPT ![c] = [pc |-> "closed", client_open |-> FALSE, vm_open |-> FALSE,
                       err |-> e, ended |-> "returned", up |-> FALSE, down |-> FALSE]]

\* The server accepts a connection and starts handle_client for it;
\* _ensure_vm_ready, lines 277-284, reads is_running.
Accept(c) ==
    /\ serving
    /\ conn[c].pc \in {"none", "closed"}
    /\ conn' = [conn EXCEPT ![c] = [NoConn EXCEPT
                    !.pc = IF rvm = "none" THEN "spawn" ELSE "connecting",
                    !.client_open = TRUE]]
    /\ UNCHANGED <<serving, rvm, notConnVars>>

\* _ensure_vm_ready, line 284: _start_vm_process returns or raises.
EnsureSpawnDone(c, ok) ==
    /\ conn[c].pc = "spawn"
    /\ IF ok
       THEN /\ conn' = [conn EXCEPT ![c].pc = "boot"]
            /\ rvm' = "booting"
       ELSE /\ conn' = ProxyFails(conn, c, "ensure")
            /\ UNCHANGED rvm
    /\ UNCHANGED <<serving, notConnVars>>

\* _ensure_vm_ready, lines 290-296: sleep, _discover_vm_ip, _wait_for_ssh.
EnsureBootDone(c, ok) ==
    /\ conn[c].pc = "boot"
    /\ IF ok /\ rvm # "none"
       THEN /\ conn' = [conn EXCEPT ![c].pc = "connecting"]
            /\ rvm' = "ready"
       ELSE /\ conn' = ProxyFails(conn, c, "ensure")
            /\ UNCHANGED rvm
    /\ UNCHANGED <<serving, notConnVars>>

\* _proxy_connection, line 309: asyncio.open_connection(self._vm_ip, 22)
\* (with _vm_ip None the host is the local one, so it may succeed at any time).
ConnectDone(c, ok) ==
    /\ conn[c].pc = "connecting"
    /\ conn' = IF ok
               THEN [conn EXCEPT ![c] = [@ EXCEPT !.pc = "splicing", !.vm_open = TRUE,
                                                  !.up = TRUE, !.down = TRUE]]
               ELSE ProxyFails(conn, c, "connect")
    /\ UNCHANGED <<serving, rvm, notConnVars>>

\* The two copiers of a connection: "up" is pipe_data(client_reader,
\* vm_writer), "down" is pipe_data(vm_reader, client_writer).
Dirs == {"up", "down"}

\* pipe_data without its finally clause: the copier ends and leaves the
\* writer it copied to open.
CopierEndKeepsWriter(cn, c, dir, e) ==
    LET r == [cn[c] EXCEPT !.up = IF dir = "up" THEN FALSE ELSE @,
                           !.down = IF dir = "down" THEN FALSE ELSE @,
                           !.err = IF e = "none" THEN @ ELSE e]
    IN  [cn EXCEPT ![c] = IF r.up \/ r.down
                          THEN [r EXCEPT !.pc = "draining"]
                          ELSE [r EXCEPT !.pc = "closed", !.client_open = FALSE,
                                         !.ended = "returned"]]

\* pipe_data, lines 317-331, and _proxy_connection, lines 334-347: the copier
\* dir leaves its loop and its finally clause closes the writer it copied
\* to.  When it was the last one, gather returns and the finally clause of
\* the handler closes client_writer.
CopierEnd(cn, c, dir, e) ==
    LET r == [cn[c] EXCEPT !.up = IF dir = "up" THEN FALSE ELSE @,
                           !.down = IF dir = "down" THEN FALSE ELSE @,
                           !.vm_open = IF dir = "up" THEN FALSE ELSE @,
                           !.client_open = IF dir = "down" THEN FALSE ELSE @,
                           !.err = IF e = "none" THEN @ ELSE e]
    IN  [cn EXCEPT ![c] = IF r.up \/ r.down
                          THEN [r EXCEPT !.pc = "draining"]
                          ELSE [r EXCEPT !.pc = "closed", !.client_open = FALSE,
                                         !.ended = "returned"]]

Copying(c, dir) ==
    /\ conn[c].pc \in {"splicing", "draining"}
    /\ IF dir = "up" THEN conn[c].up ELSE conn[c].down

\* pipe_data, lines 317-331: a read or a write of copier dir raises.
SpliceError(c, dir) ==
    /\ Copying(c, dir)
    /\ conn' = CopierEnd(conn, c, dir, "io")
    /\ UNCHANGED <<serving, rvm, notConnVars>>

\* pipe_data, lines 318-320: the peer copier dir reads from (the client for
\* "up", the guest for "down") ends its stream and read returns b"".
SpliceEof(c, dir) ==
    /\ Copying(c, dir)
    /\ conn' = CopierEnd(conn, c, dir, "none")
    /\ UNCHANGED <<serving, rvm, notConnVars>>

\* pipe_data, lines 318-320: the other copier has closed the transport this
\* copier reads from, so its read returns b"" and it ends.
SpliceEnd(c) ==
    /\ conn[c].pc = "draining"
    /\ \/ /\ conn[c].down /\ ~conn[c].vm_open
          /\ conn' = CopierEnd(conn, c, "down", "none")
       \/ /\ conn[c].up /\ ~conn[c].client_open
          /\ conn' = CopierEnd(conn, c, "up", "none")
    /\ UNCHANGED <<serving, rvm, notConnVars>>

\* The vfkit child exits and _monitor_vm runs _cleanup_vm_state.
RvmExit ==
    /\ rvm # "none"
    /\ rvm' = "none"
    /\ UNCHANGED <<conn, serving, notConnVars>>

\* serve_forever is cancelled at shutdown, lines 269-273.
ServerCancelled ==
    /\ serving
    /\ serving' = FALSE
    /\ UNCHANGED <<conn, rvm, notConnVars>>

NextConn ==
    \/ \E c \in Conns : Accept(c)
    \/ \E c \in Conns, ok \in BOOLEAN : EnsureSpawnDone(c, ok)
    \/ \E c \in Conns, ok \in BOOLEAN : EnsureBootDone(c, ok)
    \/ \E c \in Conns, ok \in BOOLEAN : ConnectDone(c, ok)
    \/ \E c \in Conns, dir \in Dirs : SpliceError(c, dir)
    \/ \E c \in Conns, dir \in Dirs : SpliceEof(c, dir)
    \/ \E c \in Conns : SpliceEnd(c)
    \/ RvmExit
    \/ ServerCancelled

(***************************************************************************)
(* DHCP lease lookup (ip_discovery.py)                                     *)
(*                                                                         *)
(* A string is a sequence of one-character strings.  MACs are built from   *)
(* MacOctets octets over the digits HexDigits, which hold a zero, a        *)
(* non-zero digit and a letter in both cases.                              *)
(***************************************************************************)
MacOctets == 2

HexDigits == {"0", "1", "a", "A"}

\* str.lower() on one character.
Lower(ch) == IF ch = "A" THEN "a" ELSE ch

\* str.lower()
LowerStr(s) == [i \in 1..Len(s) |-> Lower(s[i])]

\* [A-Fa-f0-9]
IsHex(ch) == ch \in HexDigits

\* LEADING_ZERO_REGEXP.sub(r"\1", s) from position i: the leftmost match of
\* 0([A-Fa-f0-9](:|$)) is replaced by its group 1 and the scan goes on after
\* the match.
RECURSIVE TrimFrom(_, _)
TrimFrom(s, i) ==
    IF i > Len(s)
    THEN <<>>
    ELSE IF s[i] = "0" /\ i + 1 <= Len(s) /\ IsHex(s[i + 1])
              /\ (i + 1 = Len(s) \/ s[i + 2] = ":")
         THEN IF i + 1 = Len(s)
              THEN <<s[i + 1]>>
              ELSE <<s[i + 1], ":">> \o TrimFrom(s, i + 3)
         ELSE <<s[i]>> \o TrimFrom(s, i + 1)

\* _normalize_mac without the call of lower().
NormalizeMacKeepsCase(mac) == TrimFrom(mac, 1)

\* _normalize_mac
NormalizeMac(mac) == TrimFrom(LowerStr(mac), 1)

\* _parse_dhcp_leases lines 142-147: the hw_address of an entry.
ParseHwAddress(value) ==
    IF Len(value) >= 2 /\ value[1] = "1" /\ value[2] = ","
    THEN NormalizeMac(SubSeq(value, 3, Len(value)))
    ELSE NormalizeMac(value)

\* Octets as vfkit is given them (two digits) and as bootpd writes them (the
\* leading zero dropped, or not).
Octets2 == {<<a, b>> : a \in HexDigits, b \in HexDigits}

Octets12 == Octets2 \cup {<<a>> : a \in HexDigits}

RECURSIVE MacsOf(_, _)
MacsOf(n, octets) ==
    IF n = 1
    THEN octets
    ELSE {o \o <<":">> \o r : o \in octets, r \in MacsOf(n - 1, octets)}

NoMacs == [mac |-> <<>>, value |-> <<>>, mac_address |-> <<>>, hw_address |-> <<>>,
           found |-> FALSE, pc |-> "none"]

MacInit == macs = NoMacs

\* IPDiscovery.__init__
IPDiscoveryInit(mac) ==
    /\ macs.pc = "none"
    /\ macs' = [macs EXCEPT !.mac = mac, !.mac_address = NormalizeMac(mac), !.pc = "made"]
    /\ UNCHANGED notMacVars

\* discover_ip() over a lease file with one entry whose hw_address line holds
\* value.
DiscoverIp(value) ==
    /\ macs.pc = "made"
    /\ macs' = [macs EXCEPT !.value = value,
                            !.hw_address = ParseHwAddress(value),
                            !.found = (ParseHwAddress(value) = macs.mac_address),
                            !.pc = "done"]
    /\ UNCHANGED notMacVars

NextMac ==
    \/ \E mac \in MacsOf(MacOctets, Octets2) : IPDiscoveryInit(mac)
    \/ \E e \in MacsOf(MacOctets, Octets12), prefix \in {<<>>, <<"1", ",">>} :
           DiscoverIp(prefix \o e)

(***************************************************************************)
(* Configuration (config.py)                                               *)
(*                                                                         *)
(* A JSON value is [k, v]: k is its type ("missing" when the key is not in *)
(* the object), v its number (a bool counts 0 / 1, as in Python, where     *)
(* bool is a subclass of int).  For "shared-dirs" v tells what the entries *)
(* are: 0 all paths exist, 1 a path does not exist, 2 a path is no string. *)
(***************************************************************************)
MaxEdits == 2

ConfigFields == {"cores", "memory", "debug", "port", "rosetta", "on-demand", "ttl",
                 "shared-dirs", "ip_discovery_timeout", "ssh_ready_timeout",
                 "vm_pause_timeout", "vm_resume_timeout", "vm_stop_timeout"}

Missing == [k |-> "missing", v |-> 0]

IntV(n) == [k |-> "int", v |-> n]

BoolV(b) == [k |-> "bool", v |-> IF b THEN 1 ELSE 0]

JsonValues ==
    {Missing, [k |-> "str", v |-> 0]}
        \cup {IntV(n) : n \in {-1, 0, 1, 1023, 1024, 65535, 65536}}
        \cup {BoolV(b) : b \in BOOLEAN}
        \cup {[k |-> "dict", v |-> n] : n \in 0..2}

\* A configuration as the nix-darwin module writes it.
BaseConfig ==
    [f \in ConfigFields |->
        CASE f = "cores"  -> IntV(1)
          [] f = "memory" -> IntV(1024)
          [] f = "port"   -> IntV(1024)
          [] OTHER        -> Missing]

\* The configurations tried: BaseConfig with up to MaxEdits keys replaced.
RECURSIVE Edited(_)
Edited(n) ==
    IF n = 0
    THEN {BaseConfig}
    ELSE Edited(n - 1)
             \cup {[c EXCEPT ![f] = x] : c \in Edited(n - 1), f \in ConfigFields, x \in JsonValues}

ConfigInputs == Edited(MaxEdits)

\* isinstance(x, int)
IsInt(x) == x.k \in {"int", "bool"}

\* self._config.get(f, default)
Get(c, f, default) == IF c[f].k = "missing" THEN default ELSE c[f]

\* The value the VMConfig object holds for key f after a successful load.
Stored(c, f) ==
    CASE f \in {"debug", "rosetta", "on-demand"} -> Get(c, f, BoolV(FALSE))
      [] f = "ttl" -> Get(c, f, IntV(10800))
      [] f = "shared-dirs" -> Get(c, f, [k |-> "dict", v |-> 0])
      [] f = "ip_discovery_timeout" -> Get(c, f, IntV(60))
      [] f \in {"ssh_ready_timeout", "vm_pause_timeout", "vm_resume_timeout",
                "vm_stop_timeout"} -> Get(c, f, IntV(30))
      [] OTHER -> c[f]

\* _validate_and_store_config: "ok", or the exception it raises.
ValidateAndStoreConfig(c) ==
    LET bad(f, lo) == ~IsInt(Stored(c, f)) \/ Stored(c, f).v < lo
    IN  IF \/ c["cores"].k = "missing" \/ c["memory"].k = "missing"
           \/ bad("cores", 1)
           \/ bad("memory", 1024)
           \/ Stored(c, "debug").k # "bool"
           \/ bad("port", 1024) \/ Stored(c, "port").v > 65535
           \/ Stored(c, "rosetta").k # "bool"
           \/ Stored(c, "on-demand").k # "bool"
           \/ bad("ttl", 0)
           \/ Stored(c, "shared-dirs").k # "dict"
           \/ Stored(c, "shared-dirs").v = 1
        THEN "VMConfigurationError"
        ELSE IF Stored(c, "shared-dirs").v = 2
             THEN "TypeError"
             ELSE IF bad("vm_pause_timeout", 1) \/ bad("vm_resume_timeout", 1)
                        \/ bad("vm_stop_timeout", 1)
                  THEN "VMConfigurationError"
                  ELSE "ok"

(***************************************************************************)
(* The supervisor process (cli.py, runner.py run / start / stop)           *)
(*                                                                         *)
(* vmp is VirbyVMRunner.vm_process: "none", or a child that is "alive" or  *)
(* "exited".  Connection handlers are the step ConnSpawn; they are served  *)
(* only while run() waits.  A child that was sent SIGKILL exits.  term     *)
(* records that a stop() found the child alive and sent it SIGTERM.        *)
(***************************************************************************)
NoCode == -1

RunInit ==
    /\ cfg = [raw |-> <<>>, result |-> "none"]
    /\ rn = [pc |-> "boot", mode |-> "none", event |-> FALSE, env |-> FALSE,
             sig |-> "none", vmp |-> "none", pend |-> "none", cont |-> "none",
             exc |-> "none",
             run_ended |-> "no", final_stop |-> "no", stops |-> 0, term |-> FALSE,
             code |-> NoCode]

\* main() returns or raises into asyncio.run and cli_main calls sys.exit.
MainExit(r, exc) ==
    [r EXCEPT !.pc = "exited", !.exc = exc, !.cont = "none",
              !.code = IF exc = "none" THEN 0 ELSE 1]

\* run() has left its finally clause: it returns, or the exception goes on.
RunEnds(r) ==
    MainExit([r EXCEPT !.final_stop = "done",
                       !.run_ended = IF r.exc = "none" THEN "returned" ELSE "raised"],
             r.exc)

\* runner.py stop() lines 568-608 up to the wait for the child, or to its end.
RECURSIVE StopRun(_, _)
StopRun(r, cont) ==
    LET r1 == [r EXCEPT !.stops = r.stops + 1, !.cont = cont,
                        !.final_stop = IF cont = "finally" THEN "running" ELSE r.final_stop]
    IN  IF r1.vmp = "alive"
        THEN [r1 EXCEPT !.pc = "stop_wait", !.term = TRUE]
        ELSE IF cont = "finally"
             THEN RunEnds([r1 EXCEPT !.vmp = "none"])
             \* start() lines 528-531 re-raises; run() lines 669-674.
             ELSE StopRun([r1 EXCEPT !.vmp = "none"], "finally")

\* run() reaches line 674 without having called stop().
RunFinallySkipsStop(r, exc) ==
    MainExit([r EXCEPT !.run_ended = IF exc = "none" THEN "returned" ELSE "raised"], exc)

\* run() lines 667-674: the except clauses and the finally clause.
RunFinally(r, exc) == StopRun([r EXCEPT !.exc = exc], "finally")

\* stop() lines 594-608 after the child is gone, then back in the caller.
StopDone(r) ==
    IF r.cont = "finally"
    THEN RunEnds([r EXCEPT !.vmp = "none"])
    ELSE StopRun([r EXCEPT !.vmp = "none"], "finally")

\* cli_main lines 111-112: asyncio.run starts main(); main line 81.
MainEntry ==
    /\ rn.pc = "boot"
    /\ rn' = [rn EXCEPT !.pc = "early"]
    /\ UNCHANGED <<cfg, notRunVars>>

\* main lines 85-88 and 104-106: VMConfig(config_path).
MainLoadConfig ==
    /\ rn.pc = "early"
    /\ \E c \in ConfigInputs :
          /\ cfg' = [raw |-> c, result |-> ValidateAndStoreConfig(c)]
          /\ rn' = IF ValidateAndStoreConfig(c) = "ok"
                   THEN [rn EXCEPT !.pc = "configured"]
                   ELSE MainExit(rn, "config")
    /\ UNCHANGED notRunVars

\* The configurations of the runs that follow signals: one that loads and
\* one that is refused.
PlainConfigs == {BaseConfig, [BaseConfig EXCEPT !["port"] = Missing]}

\* main lines 85-88 and 104-106 with one of PlainConfigs.
MainLoadPlain ==
    /\ rn.pc = "early"
    /\ \E c \in PlainConfigs :
          /\ cfg' = [raw |-> c, result |-> ValidateAndStoreConfig(c)]
          /\ rn' = IF ValidateAndStoreConfig(c) = "ok"
                   THEN [rn EXCEPT !.pc = "configured"]
                   ELSE MainExit(rn, "config")
    /\ UNCHANGED notRunVars

\* main lines 96-97, VirbyVMRunner.__init__ and run() lines 610-650 up to the
\* first suspension.
RunBegin(wd_ok, activated, sock_ok) ==
    /\ rn.pc = "configured"
    /\ rn' = IF ~wd_ok
             THEN MainExit(rn, "startup")
             ELSE IF activated
                  THEN IF sock_ok
                       THEN [rn EXCEPT !.pc = "wait_sock", !.mode = "socket"]
                       ELSE RunFinally([rn EXCEPT !.mode = "socket"], "startup")
                  ELSE [rn EXCEPT !.pc = "starting", !.mode = "standard"]
    /\ UNCHANGED <<cfg, notRunVars>>

\* A signal is delivered: before main() runs (cli_main lines 114-115, or the
\* default action of SIGTERM), to the handler of cli.py line 28, or to the
\* handler of run() line 614.
Signal(s) ==
    /\ rn.pc # "exited"
    /\ rn' = CASE rn.pc = "boot" ->
                    [rn EXCEPT !.pc = "exited", !.sig = s,
                               !.code = IF s = "SIGINT" THEN 130 ELSE -15]
               [] rn.pc \in {"early", "configured"} -> [rn EXCEPT !.env = TRUE]
               [] OTHER ->
                    [rn EXCEPT !.event = TRUE,
                               !.sig = IF rn.sig = "none" THEN s ELSE rn.sig]
    /\ UNCHANGED <<cfg, notRunVars>>

\* run() lines 630-645: the wait ends because the event is set or because the
\* proxy task finished (start_server failed, or the server stopped).
RunWakeSocket(proxy_done) ==
    /\ rn.pc = "wait_sock"
    /\ rn.event \/ proxy_done
    /\ rn' = RunFinally(rn, "none")
    /\ UNCHANGED <<cfg, notRunVars>>

\* _ensure_vm_ready lines 277-284 and _start_vm_process lines 388-416: a
\* connection handler finds no VM running and calls create_subprocess_exec,
\* which creates the vfkit child and suspends (rn.pend: the child exists and
\* self.vm_process is not assigned yet).
ConnSpawn ==
    /\ rn.pc = "wait_sock"
    /\ rn.vmp = "none"
    /\ rn.pend = "none"
    /\ rn' = [rn EXCEPT !.pend = "alive"]
    /\ UNCHANGED <<cfg, notRunVars>>

\* _start_vm_process line 416: create_subprocess_exec returns in the handler
\* and self.vm_process is assigned.
ConnSpawnDone ==
    /\ rn.pc # "exited"
    /\ rn.pend = "alive"
    /\ rn' = [rn EXCEPT !.vmp = "alive", !.pend = "none"]
    /\ UNCHANGED <<cfg, notRunVars>>

\* start() lines 511-513 and 528-531: create_subprocess_exec returns or raises.
RunStartSpawn(ok) ==
    /\ rn.pc = "starting"
    /\ rn' = IF ok
             THEN [rn EXCEPT !.pc = "start_boot", !.vmp = "alive"]
             ELSE StopRun([rn EXCEPT !.exc = "startup"], "start_except")
    /\ UNCHANGED <<cfg, notRunVars>>

\* start() lines 516-531: the sleep, discovery and the SSH wait succeed, or
\* one of them raises into the except clause.
RunStartDone(ok) ==
    /\ rn.pc = "start_boot"
    /\ ok => rn.vmp = "alive"
    /\ rn' = IF ok
             THEN [rn EXCEPT !.pc = "wait_std"]
             ELSE StopRun([rn EXCEPT !.exc = "startup"], "start_except")
    /\ UNCHANGED <<cfg, notRunVars>>

\* run() lines 651-665: the event is set, or the _monitor_vm task is done.
RunWakeStandard ==
    /\ rn.pc = "wait_std"
    /\ rn.event \/ rn.vmp = "none"
    /\ rn' = RunFinally(rn, "none")
    /\ UNCHANGED <<cfg, notRunVars>>

\* The vfkit child exits.
RunChildExit ==
    /\ rn.vmp = "alive"
    /\ rn.pc # "exited"
    /\ rn' = [rn EXCEPT !.vmp = "exited"]
    /\ UNCHANGED <<cfg, notRunVars>>

\* _monitor_vm lines 482-494 with _cleanup_vm_state lines 496-505.
RunMonitorCleanup ==
    /\ rn.vmp = "exited"
    /\ rn.pc # "exited"
    /\ rn' = [rn EXCEPT !.vmp = "none"]
    /\ UNCHANGED <<cfg, notRunVars>>

\* stop() lines 592-594, 608: the child exited within the timeout.
RunStopWaitDone ==
    /\ rn.pc = "stop_wait"
    /\ rn.vmp # "alive"
    /\ rn' = StopDone(rn)
    /\ UNCHANGED <<cfg, notRunVars>>

\* stop() lines 595-603: the timeout expired, SIGKILL, and the child is gone.
RunStopWaitTimeout ==
    /\ rn.pc = "stop_wait"
    /\ rn.vmp = "alive"
    /\ rn' = StopDone([rn EXCEPT !.vmp = "exited"])
    /\ UNCHANGED <<cfg, notRunVars>>

NextRun ==
    \/ MainEntry
    \/ MainLoadConfig
    \/ \E wd_ok \in BOOLEAN, activated \in BOOLEAN, sock_ok \in BOOLEAN :
           RunBegin(wd_ok, activated, sock_ok)
    \/ \E s \in {"SIGINT", "SIGTERM"} : Signal(s)
    \/ \E proxy_done \in BOOLEAN : RunWakeSocket(proxy_done)
    \/ ConnSpawn
    \/ ConnSpawnDone
    \/ \E ok \in BOOLEAN : RunStartSpawn(ok)
    \/ \E ok \in BOOLEAN : RunStartDone(ok)
    \/ RunWakeStandard
    \/ RunChildExit
    \/ RunMonitorCleanup
    \/ RunStopWaitDone
    \/ RunStopWaitTimeout

(***************************************************************************)
(* SignalManager (signal_manager.py).  The dispositions of SIGTERM and     *)
(* SIGINT belong to the process: the manager installs its closure with     *)
(* signal.signal, and other code of the process may install a handler of   *)
(* its own at any time.  All calls are made on the main thread.            *)
(***************************************************************************)
MaxSetups == 3

Sigs == {"SIGTERM", "SIGINT"}

\* What signal.signal can return for a process started by the interpreter.
PriorHandlers == {"SIG_DFL", "SIG_IGN", "default_int_handler", "early"}

\* The closure signal_handler made by the n-th effective setup.
MgrName == <<"mgr1", "mgr2", "mgr3", "mgr4">>

NoSig == [pc |-> "none", disp |-> [x \in Sigs |-> "SIG_DFL"],
          original_handlers |-> [x \in Sigs |-> "absent"], signals_setup |-> FALSE,
          handlers |-> FALSE, event |-> FALSE, made |-> 0, nsetup |-> 0,
          before |-> [x \in Sigs |-> "SIG_DFL"], last |-> "none"]

SigInit == sg = NoSig

\* The process reaches the construction of the manager with some
\* dispositions in place.
SigProcess(dt, di) ==
    /\ sg.pc = "none"
    /\ sg' = [sg EXCEPT !.pc = "live", !.disp = [x \in Sigs |-> IF x = "SIGTERM" THEN dt ELSE di]]
    /\ UNCHANGED notSigVars

\* setup_signal_handlers without the test of _signals_setup.
SetupWithoutFlag(s) ==
    [s EXCEPT !.disp = [x \in Sigs |-> MgrName[s.made + 1]],
              !.original_handlers = s.disp,
              !.signals_setup = TRUE,
              !.made = @ + 1]

\* setup_signal_handlers, lines 38-57.
Setup(s) ==
    IF s.signals_setup
    THEN s
    ELSE [s EXCEPT !.disp = [x \in Sigs |-> MgrName[s.made + 1]],
                   !.original_handlers = s.disp,
                   !.signals_setup = TRUE,
                   !.made = @ + 1]

SetupSignalHandlers ==
    /\ sg.pc = "live"
    /\ sg.nsetup < MaxSetups
    /\ sg' = [Setup(sg) EXCEPT !.nsetup = @ + 1, !.last = "setup",
                               !.before = IF sg.signals_setup THEN @ ELSE sg.disp]
    /\ UNCHANGED notSigVars

\* cleanup, lines 72-83.
Cleanup ==
    /\ sg.pc = "live"
    /\ sg.last # "cleanup"
    /\ sg' = IF ~sg.signals_setup
             THEN [sg EXCEPT !.last = "cleanup"]
             ELSE [sg EXCEPT !.disp = sg.original_handlers,
                             !.original_handlers = [x \in Sigs |-> "absent"],
                             !.handlers = FALSE,
                             !.signals_setup = FALSE,
                             !.last = "cleanup"]
    /\ UNCHANGED notSigVars

\* add_shutdown_handler, line 26 (one handler).
AddShutdownHandler ==
    /\ sg.pc = "live"
    /\ ~sg.handlers
    /\ sg' = [sg EXCEPT !.handlers = TRUE, !.last = "add"]
    /\ UNCHANGED notSigVars

\* A signal arrives while a closure of the manager is installed for it:
\* signal_handler, lines 42-51.
SignalHandler(x) ==
    /\ sg.pc = "live"
    /\ \E n \in 1..Len(MgrName) : sg.disp[x] = MgrName[n]
    /\ ~sg.event
    /\ sg' = [sg EXCEPT !.event = TRUE, !.last = "signal"]
    /\ UNCHANGED notSigVars

\* Other code of the process installs its own handler for x.
OtherInstall(x) ==
    /\ sg.pc = "live"
    /\ sg.disp[x] # "other"
    /\ sg' = [sg EXCEPT !.disp[x] = "other", !.last = "other"]
    /\ UNCHANGED notSigVars

NextSig ==
    \/ \E dt, di \in PriorHandlers : SigProcess(dt, di)
    \/ SetupSignalHandlers
    \/ Cleanup
    \/ AddShutdownHandler
    \/ \E x \in Sigs : SignalHandler(x)
    \/ \E x \in Sigs : OtherInstall(x)

\* VMProcess driven by start() and safe_pause_or_stop().
NextPause ==
    \/ \E t \in Tasks : StartBegin(t)
    \/ \E t \in Tasks : SpawnDone(t)
    \/ \E t \in Tasks : SpawnFail(t)
    \/ \E t \in Tasks : DiscPollDone(t)
    \/ \E t \in Tasks : DiscWake(t)
    \/ \E t \in Tasks : SshReady(t)
    \/ \E t \in Tasks : SshTimeout(t)
    \/ \E t \in Tasks : SpsBegin(t)
    \/ \E t \in Tasks : SpsCanPauseDone(t)
    \/ \E t \in Tasks : PauseCanPauseDone(t)
    \/ \E t \in Tasks : PausePostDone(t)
    \/ \E t \in Tasks : StopCloseDone(t)
    \/ \E t \in Tasks : StopWaitDone(t)
    \/ \E t \in Tasks : StopWaitTimeout(t)
    \/ \E t \in Tasks : StopKillDone(t)
    \/ ApiCloseTask
    \/ \E m \in Children : MonitorStart(m)
    \/ \E m \in Children : MonitorWake(m)
    \/ \E c \in Children : ChildExit(c)
    \/ \E c \in Children : GuestLease(c)

Init ==
    /\ CBInit /\ VMInit /\ OrphanInit /\ ApiInit /\ SockInit /\ ConnInit /\ MacInit /\ RunInit
    /\ SigInit

Spec == Init /\ [][NextVM]_vars

\* The VMProcess model with the fairness asyncio gives the monitor task: a task
\* made by create_task runs once the loop is free, and a task awaiting
\* process.wait() is resumed once the child has exited.
SpecMonitor ==
    /\ Init
    /\ [][NextVM]_vars
    /\ \A m \in Children : WF_vars(MonitorStart(m)) /\ WF_vars(MonitorWake(m))

SpecCB == Init /\ [][NextCB]_vars

SpecOrphan == Init /\ [][NextOrphan]_vars

SpecApi == Init /\ [][NextApi]_vars

SpecSock == Init /\ [][NextSock]_vars

SpecConn == Init /\ [][NextConn]_vars

\* The event loop resumes a copier whose read has returned.
SpecConnFair ==
    /\ Init
    /\ [][NextConn]_vars
    /\ \A c \in Conns : WF_vars(SpliceEnd(c))

SpecMac == Init /\ [][NextMac]_vars

SpecRun == Init /\ [][NextRun]_vars

\* The steps of the main task (main() and run()) that the event loop takes
\* by itself once they are possible; signals, accepted connections, the end
\* of the proxy task and the exit of the vfkit child are events of the
\* environment and need not happen.
RunProgress ==
    \/ MainEntry
    \/ MainLoadPlain
    \/ \E wd_ok \in BOOLEAN, activated \in BOOLEAN, sock_ok \in BOOLEAN :
           RunBegin(wd_ok, activated, sock_ok)
    \/ RunWakeSocket(FALSE)
    \/ \E ok \in BOOLEAN : RunStartSpawn(ok)
    \/ \E ok \in BOOLEAN : RunStartDone(ok)
    \/ RunWakeStandard
    \/ RunStopWaitDone
    \/ RunStopWaitTimeout

\* The supervisor process with one of PlainConfigs.
NextRunPlain ==
    \/ MainEntry
    \/ MainLoadPlain
    \/ \E wd_ok \in BOOLEAN, activated \in BOOLEAN, sock_ok \in BOOLEAN :
           RunBegin(wd_ok, activated, sock_ok)
    \/ \E s \in {"SIGINT", "SIGTERM"} : Signal(s)
    \/ \E proxy_done \in BOOLEAN : RunWakeSocket(proxy_done)
    \/ ConnSpawn
    \/ ConnSpawnDone
    \/ \E ok \in BOOLEAN : RunStartSpawn(ok)
    \/ \E ok \in BOOLEAN : RunStartDone(ok)
    \/ RunWakeStandard
    \/ RunChildExit
    \/ RunMonitorCleanup
    \/ RunStopWaitDone
    \/ RunStopWaitTimeout

\* The event loop runs each of its tasks that can go on: the main task, the
\* connection handler that spawns the VM, and the monitor task.
SpecRunFair ==
    /\ Init
    /\ [][NextRunPlain]_vars
    /\ WF_vars(RunProgress)
    /\ WF_vars(ConnSpawnDone)
    /\ WF_vars(RunMonitorCleanup)

SpecSig == Init /\ [][NextSig]_vars

SpecPause == Init /\ [][NextPause]_vars

(***************************************************************************)
(* Claims about the circuit breaker (checked under SpecCB)                 *)
(***************************************************************************)

\* A call completes in this step (func returned or raised).
CBCompletes(c) == cbPc[c] = "in_func" /\ cbPc'[c] = "idle"

\* C5: once failure_threshold consecutive calls have failed (no success and no
\* reset since), a call made while at most cb_timeout seconds have elapsed since
\* the last recorded failure raises without invoking the wrapped function, and a
\* call made after more than cb_timeout seconds invokes it (half-open trial).
C5_OpenRejectsUntilTimeout ==
    (cbLast.kind \in {"invoked", "rejected"} /\ cbLast.consec >= failure_threshold)
        => /\ (cbLast.elapsed <= cb_timeout => cbLast.kind = "rejected")
           /\ (cbLast.elapsed > cb_timeout => cbLast.kind = "invoked")

C5_Witness ==
    /\ cbLast.kind = "invoked"
    /\ cbLast.consec >= failure_threshold
    /\ cbLast.elapsed > cb_timeout
    /\ cbState = HALF_OPEN

\* C6: in the closed state a failed call adds exactly one to failure_count and a
\* successful call resets it to 0; the breaker opens exactly when failure_count
\* reaches failure_threshold, and it is never open with fewer than
\* failure_threshold failures since the last success.
C6_ClosedCounting ==
    [][ /\ \A c \in CBCallers :
            (cbState = CLOSED /\ CBCompletes(c)) =>
                /\ cbLast'.kind = "failure" =>
                      /\ failure_count' = failure_count + 1
                      /\ cbState' \in {CLOSED, OPEN}
                      /\ (cbState' = OPEN <=> failure_count' = failure_threshold)
                /\ cbLast'.kind = "success" =>
                      /\ failure_count' = 0
                      /\ cbState' = CLOSED
        /\ (cbState' = OPEN => cbConsec' >= failure_threshold) ]_vars

C6_Witness ==
    /\ cbLast.kind = "failure"
    /\ cbLast.consec = failure_threshold - 1
    /\ failure_count = failure_threshold
    /\ cbState = OPEN

\* C7: a half-open trial call that succeeds leaves the breaker closed with
\* failure_count = 0, and one that fails leaves the breaker open again, also
\* when other calls complete while the trial call is suspended.
C7_TrialOutcome ==
    [][ \A c \in CBCallers :
            (cbTrial = c /\ CBCompletes(c)) =>
                /\ cbLast'.kind = "success" => (cbState' = CLOSED /\ failure_count' = 0)
                /\ cbLast'.kind = "failure" => cbState' = OPEN ]_vars

(***************************************************************************)
(* Claims about VMProcess (checked under Spec)                             *)
(***************************************************************************)

\* C1: at most one vfkit child is alive at any time, in every interleaving of
\* the coroutines; a start that begins while another is suspended in the spawn
\* does not create a second child.
C1_AtMostOneChild ==
    Cardinality({c \in Children : child[c] = "alive"}) <= 1

\* C2: a safe_resume_or_start call that begins once shutdown_requested is true
\* never creates a vfkit child and never resumes the VM.
C2_NoSpawnOrResumeAfterShutdown ==
    [][ \A t \in Tasks :
            (loc[t].op = "safe_resume_or_start" /\ loc[t].afterShutdown /\ loc'[t] # loc[t]) =>
                /\ \A c \in Children : child[c] = "none" => child'[c] = "none"
                /\ \A c \in Children : vmState[c] = "paused" => vmState'[c] = "paused" ]_vars

\* C3: a safe_resume_or_start call that fell back from a failed resume to
\* stop() and start() returns the guest IP unless the spawn failed, the new
\* child died, or the lease or the SSH probe did not come within its timeout.
C3_FallbackStartServes ==
    \A t \in Tasks :
        (loc[t].fallback /\ loc[t].pc = "idle" /\ loc[t].last = "error") =>
            loc[t].err \in {"spawn_failed", "vm_died", "ip_timeout", "ssh_timeout"}

\* C4: whenever ip_address is present, process_handle (vm_process) is present,
\* also when the child exits and the monitor clears the state while the IP
\* discovery is suspended.
C4_IpImpliesProcess ==
    vm.ip_address # NoProc => vm.vm_process # NoProc

C11_StopPostcondition ==
    \A t \in Tasks :
        loc[t].ret.stopped =>
            /\ ~loc[t].ret.found_alive
            /\ loc[t].ret.vm_process = NoProc
            /\ loc[t].ret.ip_address = NoProc
            /\ ~loc[t].ret.client
            /\ loc[t].ret.pid_file = NoProc

\* C12: stop() on a stopped supervisor (no child, no ip, no PID file) returns
\* without error and without signalling or waiting for any process, leaves
\* vm_process, ip_address and the PID file as they were, and a second stop()
\* right after it leaves the state the first one left.
C12_StopIdempotent ==
    (vm.vm_process = NoProc /\ vm.ip_address = NoProc /\ vm.pid_file = NoProc) =>
        LET r1 == StopAlone(vm, NewCall("stop"), child)
            r2 == StopAlone(r1.o, NewCall("stop"), child)
        IN  /\ r1.l.pc = "idle" /\ r1.l.last = "ok" /\ r1.l.ret.stopped
            /\ r1.o.vm_process = vm.vm_process
            /\ r1.o.ip_address = vm.ip_address
            /\ r1.o.pid_file = vm.pid_file
            /\ r2.l.pc = "idle" /\ r2.l.last = "ok"
            /\ r2.o = r1.o

C12_Witness ==
    /\ vm.vm_process = NoProc /\ vm.ip_address = NoProc /\ vm.pid_file = NoProc
    /\ vm.shutdown_requested
    /\ \E t \in Tasks : loc[t].pc = "idle" /\ loc[t].ret.stopped
    /\ \E c \in Children : child[c] = "exited"

(***************************************************************************)
(* Claims about orphan cleanup (checked under SpecOrphan)                  *)
(***************************************************************************)

\* C13: orphan cleanup never signals the vfkit child of, nor removes the PID
\* file of, a supervisor that is live in the same working directory.
C13_CleanupSparesLiveOwner ==
    ~cl.hit_live_child /\ ~cl.removed_live_file

\* C14: when cli.main() constructs and runs the runner, a PID file that an
\* unclean shutdown had left at entry has been removed and a live orphan it
\* named has been signalled.
C14_CleanupBeforeRun ==
    (cli.pc = "running" /\ cli.leftover /\ ~cli.owner_at_run) =>
        cli.snap = NoFile /\ ~cli.orphan_untouched

\* C15: a cleanup that acquired the lock and returned has left no PID file;
\* it sent no signal when the content named no live process (or was empty,
\* non-integer or non-positive), and otherwise sent SIGTERM first and SIGKILL
\* only when the process was still alive after the sleep.
C15_CleanupOutcome ==
    (cl.pc = "done" /\ cl.locked) =>
        /\ cl.file_after = NoFile
        /\ cl.probe \in {"none", "noproc", "overflow"} => cl.sigs = <<>>
        /\ cl.probe \in {"ok", "eperm"} =>
               /\ cl.sigs # <<>>
               /\ cl.sigs[1] = "SIGTERM"
               /\ Len(cl.sigs) <= 2
               /\ Len(cl.sigs) = 2 <=> cl.probe2 \in {"ok", "eperm"}
               /\ Len(cl.sigs) = 2 => cl.sigs[2] = "SIGKILL"

(***************************************************************************)
(* Claims about REST calls (checked under SpecApi)                         *)
(***************************************************************************)

\* C16: an api_client call is reported as failed after a connect error or a
\* timeout only when max_retries + 1 requests were sent, and a call that
\* returned did so on a successful request.
C16_RetriesBeforeFailure ==
    /\ (api.last.kind = "raised"
            /\ api.last.transport \in {"ConnectError", "TimeoutException"})
           => api.last.sent = max_retries + 1
    /\ api.last.kind = "returned" => api.last.transport = "ok"

\* C17: no HTTP request of pause() / resume() is sent while the breaker is
\* open, and an api_client call that failed was counted as one failure of
\* the breaker.
C17_AllCallsThroughBreaker ==
    /\ api.pc = "http" => api.cb_at_send # OPEN
    /\ api.last.kind = "raised" => api.last.fc_after = api.last.fc_before + 1

\* C18: no HTTP request is in flight, and no HTTP client was created, for a
\* _call_api that was entered while the VM child was absent.
C18_GatedWhenAbsent ==
    api.pc = "http" => api.entry_running

(***************************************************************************)
(* Claims about the activation socket (checked under SpecSock)             *)
(***************************************************************************)

\* C19: under socket activation the acquisition returns a socket bound to
\* config.port or fails with a Startup error naming config.port; it never
\* returns a socket bound to another port.
C19_SocketOnConfigPort ==
    (sock.pc = "done" /\ sock.activated) =>
        \/ sock.result.kind = "socket" /\ sock.result.port = sock.port
        \/ sock.result.kind = "VMStartupError" /\ sock.result.expected = sock.port

(***************************************************************************)
(* Claims about connection handlers (checked under SpecConn)               *)
(***************************************************************************)

\* C20: in a step in which the handler of one connection ends on an error
\* (ensure-ready failure, failure to connect to the guest, I/O error during
\* the splice), the handler task returns with its client connection closed,
\* the server keeps accepting if it was, and every other connection, its
\* splice included, is left as it was.
C20_HandlerErrorContained ==
    [][\A c \in Conns :
          (conn[c].pc # "closed" /\ conn'[c].pc = "closed" /\ conn'[c].err # "none") =>
              /\ ~conn'[c].client_open
              /\ conn'[c].ended = "returned"
              /\ serving' = serving
              /\ \A d \in Conns \ {c} : conn'[d] = conn[d]]_vars

C20_Witness ==
    /\ serving
    /\ \E c \in Conns : \E d \in Conns \ {c} :
          /\ conn[c].pc = "closed" /\ conn[c].err \in {"ensure", "connect", "io"}
          /\ ~conn[c].client_open
          /\ conn[d].pc = "splicing" /\ conn[d].client_open /\ conn[d].vm_open

(***************************************************************************)
(* Further claims about the circuit breaker (checked under SpecCB)         *)
(***************************************************************************)

\* C25: while the breaker is half-open and its trial call is still in
\* flight, no other call is passed through to the wrapped function.
C25_SingleTrialInHalfOpen ==
    [][\A c \in CBCallers :
          (cbState = HALF_OPEN /\ cbTrial # NoTask /\ cbTrial # c
               /\ cbPc[cbTrial] = "in_func") =>
              ~(cbPc[c] = "idle" /\ cbPc'[c] = "in_func")]_vars

\* C30: a task whose IP discovery is asleep between two polls does not go on
\* to another lease poll once no vfkit child is alive any more: the loop head
\* raises instead.
C30_NoPollAfterChildExit ==
    [][\A t \in Tasks :
          (loc[t].pc = "disc_sleep" /\ \A c \in Children : child[c] # "alive") =>
              loc'[t].pc # "disc_poll"]_vars

C29_FailedStartLeavesNothing ==
    [][\A t \in Tasks :
          (loc[t].op = "start" /\ loc[t].pc # "idle"
               /\ loc'[t].pc = "idle" /\ loc'[t].last = "error") =>
              /\ \A c \in Children : child'[c] # "alive"
              /\ vm'.ip_address = NoProc
              /\ vm'.pid_file = NoProc]_vars

\* C27: when stop() escalates to SIGKILL after the timeout, the child it
\* kills is the child it sent SIGTERM to, and that child has not exited.
C27_KillOnlyAfterTerm ==
    [][\A t \in Tasks :
          (loc[t].pc = "stop_wait" /\ loc'[t].pc = "stop_killwait") =>
              /\ loc'[t].wait = loc[t].found
              /\ child[loc[t].found] = "alive"]_vars

\* C26: whenever the child vm_process refers to has exited, eventually
\* vm_process and ip_address are cleared and the PID file is removed.
C26_ExitLeadsToCleanup ==
    (vm.vm_process # NoProc /\ child[vm.vm_process] = "exited")
        ~> (vm.vm_process = NoProc /\ vm.ip_address = NoProc /\ vm.pid_file = NoProc)

(***************************************************************************)
(* Claims about the lease lookup (checked under SpecMac)                   *)
(***************************************************************************)
\* The numeric value of one hex digit, and of an octet of one or two digits.
HexVal(ch) == CASE ch = "0" -> 0 [] ch = "1" -> 1 [] OTHER -> 10

OctetVal(o) == IF Len(o) = 1 THEN HexVal(o[1]) ELSE 16 * HexVal(o[1]) + HexVal(o[2])

\* The octet values of a colon-separated MAC, left to right.
RECURSIVE AddressFrom(_, _, _)
AddressFrom(s, i, cur) ==
    IF i > Len(s)
    THEN <<OctetVal(cur)>>
    ELSE IF s[i] = ":"
         THEN <<OctetVal(cur)>> \o AddressFrom(s, i + 1, <<>>)
         ELSE AddressFrom(s, i + 1, Append(cur, s[i]))

Address(s) == AddressFrom(s, 1, <<>>)

\* The MAC in a hw_address value, without the hardware-type prefix "1,".
EntryMac(value) ==
    IF Len(value) >= 2 /\ value[2] = "," THEN SubSeq(value, 3, Len(value)) ELSE value

\* C24: normalising is idempotent, and the lease entry is found for the
\* queried MAC exactly when the two denote the same address (whatever the
\* letter case and the leading zeros of the octets).
C24_NormalizeMac ==
    macs.pc = "done" =>
        /\ NormalizeMac(macs.mac_address) = macs.mac_address
        /\ NormalizeMac(macs.hw_address) = macs.hw_address
        /\ macs.found <=> (Address(macs.mac) = Address(EntryMac(macs.value)))

\* A lease entry written without leading zeros and in the other letter case
\* is found for the queried MAC.
C24_Witness ==
    /\ macs.pc = "done"
    /\ macs.found
    /\ macs.mac # EntryMac(macs.value)
    /\ LowerStr(macs.mac) # LowerStr(EntryMac(macs.value))
    /\ \E i \in 1..Len(macs.mac) : macs.mac[i] = "A"
    /\ \A i \in 1..Len(macs.value) : macs.value[i] # "A"

(***************************************************************************)
(* Claims about the supervisor process (checked under SpecRun)             *)
(***************************************************************************)
\* The loaded configuration holds an integer of at least lo for key f.
IntAtLeast(f, lo) == IsInt(Stored(cfg.raw, f)) /\ Stored(cfg.raw, f).v >= lo

\* C23: a configuration that loads has cores >= 1, memory >= 1024, port in
\* 1024..65535, ttl >= 0 and every one of the five timeouts an integer >= 1.
C23_LoadedConfigValid ==
    cfg.result = "ok" =>
        /\ IntAtLeast("cores", 1)
        /\ IntAtLeast("memory", 1024)
        /\ IntAtLeast("port", 1024) /\ Stored(cfg.raw, "port").v <= 65535
        /\ IntAtLeast("ttl", 0)
        /\ \A f \in {"ip_discovery_timeout", "ssh_ready_timeout", "vm_pause_timeout",
                     "vm_resume_timeout", "vm_stop_timeout"} : IntAtLeast(f, 1)

\* C21: when run() has returned or raised, the stop() of its finally clause
\* was called and has completed.
C21_StopBeforeRunEnds ==
    rn.run_ended # "no" => rn.final_stop = "done" /\ rn.stops >= 1

\* start() failed with the child alive: stop() ran in start()'s except clause
\* and again in run()'s finally clause before the error left run().
C21_Witness ==
    /\ rn.pc = "exited"
    /\ rn.run_ended = "raised"
    /\ rn.mode = "standard"
    /\ rn.stops = 2
    /\ rn.term
    /\ rn.final_stop = "done"

\* C22: the process exits with 0 after a shutdown without error, with 1
\* after a Configuration or Startup error, and with 130 when the signal that
\* ended it was SIGINT.
C22_ExitCodes ==
    rn.pc = "exited" =>
        /\ rn.exc # "none" => rn.code = 1
        /\ (rn.exc = "none" /\ rn.sig = "SIGINT") => rn.code = 130
        /\ (rn.exc = "none" /\ rn.sig = "SIGTERM" /\ rn.mode # "none") => rn.code = 0
        /\ (rn.exc = "none" /\ rn.sig = "none") => rn.code = 0

(***************************************************************************)
(* The state invariant of the circuit breaker (checked under SpecCB)       *)
(***************************************************************************)
\* C39: an open breaker has failure_count >= failure_threshold and a
\* last_failure_time; a half-open breaker has failure_count >=
\* failure_threshold; a closed breaker has failure_count < failure_threshold.
C39_BreakerStateInvariant ==
    /\ cbState = OPEN => failure_count >= failure_threshold /\ last_failure_time # NoTime
    /\ cbState = HALF_OPEN => failure_count >= failure_threshold
    /\ cbState = CLOSED => failure_count < failure_threshold

\* The breaker went open, the trial call of the half-open state failed and
\* opened it again while another call admitted earlier is still in flight.
C39_Witness ==
    /\ cbState = OPEN
    /\ failure_count > failure_threshold
    /\ cbLast.kind = "failure"
    /\ \E c \in CBCallers : cbPc[c] = "in_func"

(***************************************************************************)
(* Further claims about VMProcess (checked under Spec)                     *)
(***************************************************************************)
\* C38: when start() was entered with a live child present and ends with the
\* error "VM process is already running", vm_process and the PID file are
\* what start() found when it was entered.
C38_RefusedStartChangesNothing ==
    [][\A t \in Tasks :
          (loc'[t] # loc[t] /\ loc'[t].pc = "idle" /\ loc'[t].last = "error"
               /\ loc'[t].err = "already_running" /\ loc'[t].saw.pid_alive) =>
              /\ vm'.vm_process = loc'[t].saw.vm_process
              /\ vm'.pid_file = loc'[t].saw.pid_file]_vars

\* C37: when a monitor that awaited a child's exit goes on to its cleanup,
\* vm_process is still the child it awaited: it is neither absent nor a
\* newer child.
C37_MonitorClearsOnlyItsChild ==
    [][\A m \in Children :
          (mon[m].st = "wait" /\ mon'[m].st = "done") =>
              vm.vm_process = mon[m].target]_vars

\* C37, second half alone: a waking monitor never clears the state of a
\* child that is still alive.
C37_NewerChildKept ==
    [][\A m \in Children :
          (mon[m].st = "wait" /\ mon'[m].st = "done" /\ vm.vm_process # NoProc
               /\ child[vm.vm_process] = "alive") =>
              vm'.vm_process = vm.vm_process]_vars

\* C31: the Pause POST is sent only by a pause() whose own state query has
\* just answered canPause for a running child, and the Resume POST only by
\* a resume() whose own query answered canResume; a pause() that ends with
\* "not running" or "cannot be paused" has sent no POST.
C31_PostOnlyAfterQuery ==
    [][\A t \in Tasks :
          /\ (loc'[t].pc = "pause_post" /\ loc[t].pc # "pause_post") =>
                 /\ loc[t].pc = "pause_canpause"
                 /\ IsRunning(vm, child)
                 /\ vmState[vm.vm_process] = "running"
          /\ (loc'[t].pc = "resume_post" /\ loc[t].pc # "resume_post") =>
                 /\ loc[t].pc = "resume_canresume"
                 /\ IsRunning(vm, child)
                 /\ vmState[vm.vm_process] = "paused"
          /\ (loc'[t] # loc[t] /\ loc'[t].pc = "idle"
                 /\ loc'[t].err \in {"not_running", "cannot_pause"}) =>
                 loc[t].pc \in {"idle", "pause_canpause"}]_vars

\* A Resume POST is in flight (so a Pause POST succeeded before it) while
\* another pause() has been refused by its state query.
C31_Witness ==
    \E t, u \in Tasks :
        /\ loc[t].pc = "resume_post"
        /\ loc[u].pc = "idle" /\ loc[u].last = "error" /\ loc[u].err = "cannot_pause"

(***************************************************************************)
(* Further claims about the connection handlers                            *)
(***************************************************************************)

\* C35: a connection is joined to the guest only while the VM of the
\* supervisor is running and has been found ready for SSH.
C35_SpliceOnlyToReadyGuest ==
    [][\A c \in Conns :
          (conn[c].pc = "connecting" /\ conn'[c].pc = "splicing") => rvm = "ready"]_vars

C34_SetupOnce ==
    [][/\ (sg'.nsetup = sg.nsetup + 1 /\ sg.signals_setup) =>
              /\ sg'.disp = sg.disp
              /\ sg'.original_handlers = sg.original_handlers
       /\ (sg.signals_setup /\ ~sg'.signals_setup) => sg'.disp = sg.before]_vars

\* The manager was set up once over the early handler, set up a second
\* time with no cleanup in between, and has been cleaned up.
C34_Witness ==
    /\ sg.last = "cleanup"
    /\ sg.nsetup = 2 /\ sg.made = 1
    /\ ~sg.signals_setup
    /\ sg.before = [x \in Sigs |-> IF x = "SIGTERM" THEN "early" ELSE "default_int_handler"]
    /\ sg.disp = sg.before

(***************************************************************************)
(* Claims about safe_pause_or_stop (checked under SpecPause)               *)
(***************************************************************************)
MaxTimeoutArg == 60

\* safe_pause_or_stop line 737: the timeout given to stop().
StopTimeout(timeout) ==
    LET half == timeout \div 2
        pause_timeout == IF half < 15 THEN half ELSE 15
        rest == timeout - pause_timeout
    IN  IF rest > 10 THEN rest ELSE 10

\* C32: a safe_pause_or_stop() called on a running VM returns 'paused' only
\* from a Pause POST that succeeded, without having gone to stop() and with
\* the child alive; when it returns 'stopped' no vfkit child is running;
\* the timeout it gives to stop() is at least 10 s.
C32_PausedOrStopped ==
    [][\A t \in Tasks :
          (loc[t].op = "safe_pause_or_stop" /\ loc[t].pc # "idle" /\ loc'[t].pc = "idle") =>
              /\ loc'[t].last \in {"paused", "stopped"}
              /\ loc'[t].last = "paused" =>
                     /\ loc[t].pc = "pause_post"
                     /\ ~loc'[t].fallback
                     /\ IsRunning(vm', child')
              /\ loc'[t].last = "stopped" =>
                     /\ loc'[t].fallback
                     /\ \A c \in Children : child'[c] # "alive"
              /\ \A n \in 0..MaxTimeoutArg : StopTimeout(n) >= 10]_vars

\* The same statement for the runs in which start() has spawned one child
\* only (no two start() calls overlapped in the spawn).
C32_WithOneChild ==
    [][\A t \in Tasks :
          (loc[t].op = "safe_pause_or_stop" /\ loc[t].pc # "idle" /\ loc'[t].pc = "idle"
               /\ SpawnedIn(child') <= 1) =>
              /\ loc'[t].last \in {"paused", "stopped"}
              /\ loc'[t].last = "paused" =>
                     /\ loc[t].pc = "pause_post"
                     /\ ~loc'[t].fallback
                     /\ IsRunning(vm', child')
              /\ loc'[t].last = "stopped" =>
                     /\ loc'[t].fallback
                     /\ \A c \in Children : child'[c] # "alive"]_vars

(***************************************************************************)
(* Further claims about the supervisor process (checked under SpecRun and  *)
(* SpecRunFair)                                                            *)
(***************************************************************************)

\* C36: once run() has returned or raised, no vfkit child created by the
\* supervisor is alive, whether self.vm_process names it or its spawn was
\* still in progress in a connection handler.
C36_NoChildAfterRun ==
    rn.run_ended # "no" => rn.vmp # "alive" /\ rn.pend # "alive"

\* C40: once a SIGTERM or SIGINT has been delivered to the process (to the
\* early handler of cli.py, to the handler of run(), or before either is
\* installed), the process eventually exits.
C40_SignalLeadsToExit ==
    (rn.env \/ rn.sig # "none") ~> (rn.pc = "exited")

\* A signal delivered to the handler of run(), or before main() runs, does
\* lead to the exit of the process.
C40_HandledSignalLeadsToExit ==
    (rn.sig # "none") ~> (rn.pc = "exited")


==============================================================================
